---- MODULE Spec2Model ----
(***************************************************************************)
(* A model of the sinsaju core: the solar-term resolver and its            *)
(* process-wide cache, the sexagenary calculator, the BirthMoment facade   *)
(* and the fortune scorer (computeProfile).                                *)
(*                                                                         *)
(* Number representations (TLC has integers only):                         *)
(*   - an instant (a Julian day in the source) is an integer number of     *)
(*     minutes since JD 2451545.0; a JavaScript Date is an integer number  *)
(*     of civil minutes since 2000-01-01 00:00 local time;                 *)
(*   - an ecliptic longitude is an integer number of 1e-4 degrees;         *)
(*   - Math.sin is a table of sin(k deg)*1e4 with linear interpolation;    *)
(*   - element names: mok(wood) hwa(fire) to(earth) geum(metal) su(water); *)
(*   - solar-term names are romanised.                                     *)
(***************************************************************************)
EXTENDS Integers, Sequences, FiniteSets, TLC

\* ------------------------------------------------------------------------
\* Generic helpers
\* ------------------------------------------------------------------------
None == "none"

Min(a, b) == IF a < b THEN a ELSE b

Max(a, b) == IF a > b THEN a ELSE b

\* `const r = <call>`: Only({ body : r \in {<call>} }) evaluates the call
\* once and yields the body's value for its outcome
Only(S) == CHOOSE x \in S : TRUE

\* ------------------------------------------------------------------------
\* JavaScript Date (local civil time), as the source uses it
\* ------------------------------------------------------------------------

\* new Date(y, m-1, d): days since 2000-01-01; d may lie outside the month
\* (Date normalises it), which is what "1 - 15" relies on.
DaysFromCivil(y, m, d) ==
  LET a  == (14 - m) \div 12
      yy == y + 4800 - a
      mm == m + 12 * a - 3
  IN  d + (153 * mm + 2) \div 5 + 365 * yy + yy \div 4 - yy \div 100
        + yy \div 400 - 32045 - 2451545

\* getFullYear / getMonth()+1 / getDate of a day number
CivilFromDays(n) ==
  LET J == n + 2451545
      f == J + 1401 + (((4 * J + 274277) \div 146097) * 3) \div 4 - 38
      e == 4 * f + 3
      g == (e % 1461) \div 4
      h == 5 * g + 2
      D == (h % 153) \div 5 + 1
      M == ((h \div 153 + 2) % 12) + 1
      Y == e \div 1461 - 4716 + (12 + 2 - M) \div 12
  IN  [year |-> Y, month |-> M, day |-> D]

\* A Date whose time value is outside +-8.64e15 ms is an Invalid Date: every
\* getter yields NaN.  Only the year can push a Date of this program there.
DateValid(y) == y >= -271820 /\ y <= 275759

\* new Date(y, m-1, d, h, mi).getTime(), in minutes (0 stands for the NaN of
\* an Invalid Date; no operation of the program gets to use that value)
DateOf(y, m, d, h, mi) ==
  IF DateValid(y) THEN DaysFromCivil(y, m, d) * 1440 + h * 60 + mi ELSE 0

\* ------------------------------------------------------------------------
\* AstronomyUtils
\* ------------------------------------------------------------------------

\* julianDay(y, m, d, h, mi), in minutes since JD 2451545.0
julianDay(y0, m0, d, h, mi) ==
  LET y == IF m0 <= 2 THEN y0 - 1 ELSE y0
      m == IF m0 <= 2 THEN m0 + 12 ELSE m0
      A == y \div 100
      B == 2 - A + A \div 4
      whole == (1461 * (y + 4716)) \div 4 + (306001 * (m + 1)) \div 10000
                 + d + B - 1524
  IN  (whole - 2451545) * 1440 - 720 + h * 60 + mi

SinTable ==
  << 0, 175, 349, 523, 698, 872, 1045, 1219, 1392, 1564, 1736, 1908, 2079,
     2250, 2419, 2588, 2756, 2924, 3090, 3256, 3420, 3584, 3746, 3907, 4067,
     4226, 4384, 4540, 4695, 4848, 5000, 5150, 5299, 5446, 5592, 5736, 5878,
     6018, 6157, 6293, 6428, 6561, 6691, 6820, 6947, 7071, 7193, 7314, 7431,
     7547, 7660, 7771, 7880, 7986, 8090, 8192, 8290, 8387, 8480, 8572, 8660,
     8746, 8829, 8910, 8988, 9063, 9135, 9205, 9272, 9336, 9397, 9455, 9511,
     9563, 9613, 9659, 9703, 9744, 9781, 9816, 9848, 9877, 9903, 9925, 9945,
     9962, 9976, 9986, 9994, 9998, 10000 >>

\* sin of x centi-degrees (0..9000), times 1e4
SinQuadrant(x) ==
  LET k == x \div 100
      f == x % 100
  IN  IF k >= 90 THEN 10000
      ELSE SinTable[k + 1] + ((SinTable[k + 2] - SinTable[k + 1]) * f) \div 100

\* Math.sin of x centi-degrees (any integer), times 1e4
Sin(x) ==
  LET n == x % 36000
  IN  IF n <= 9000 THEN SinQuadrant(n)
      ELSE IF n <= 18000 THEN SinQuadrant(18000 - n)
      ELSE IF n <= 27000 THEN 0 - SinQuadrant(n - 18000)
      ELSE 0 - SinQuadrant(36000 - n)

\* sunLongitude(jd): mean longitude + equation of centre + nutation term,
\* in 1e-4 degrees, normalised to [0, 360)
sunLongitude(jd) ==
  LET days == jd \div 1440
      r    == jd % 1440
      L0   == 2804665 + days * 9856 + (days * 4736) \div 10000
                + (r * 6845) \div 1000
                + (3 * ((days * days) \div 36525)) \div 36525
      M    == 35753 + days * 98 + (days * 56003) \div 100000
                + (r * 9856) \div 144000
      c1   == 19146 - (48 * days) \div 36525
      c2   == 200 - days \div 36525
      C    == (c1 * Sin(M)) \div 10000 + (c2 * Sin(2 * M)) \div 10000
                + (289 * Sin(3 * M)) \div 1000000
      om   == 12504 - (days * 5 + (days * 29539) \div 100000)
                - (r * 368) \div 100000
  IN  (L0 + C - 57 - (48 * Sin(om)) \div 10000) % 3600000

\* jdToKST(jd): the civil KST date and time of a Julian day, as a Date
jdToKST(jd) ==
  LET jm == jd + 540 + 720
      Z  == 2451545 + jm \div 1440
      F  == jm % 1440
      al == (100 * Z - 186721625) \div 3652425
      A  == IF Z < 2299161 THEN Z ELSE Z + 1 + al - al \div 4
      B  == A + 1524
      C  == (20 * B - 2442) \div 7305
      D  == (1461 * C) \div 4
      E  == ((B - D) * 10000) \div 306001
      di == B - D - (306001 * E) \div 10000
      mo == IF E < 14 THEN E - 1 ELSE E - 13
      yr == IF mo > 2 THEN C - 4716 ELSE C - 4715
  IN  DateOf(yr, mo, di, Min(F \div 60, 23), Min(F % 60, 59))

\* ------------------------------------------------------------------------
\* Solar terms (SolarTermResolver)
\* ------------------------------------------------------------------------

\* termDefs of SajuCalculator.calculate: the 12 monthly terms in order, each
\* with its target longitude (degrees) and month number
TermDefs ==
  << [name |-> "ipchun",    lon |-> 315, monthNum |-> 1],
     [name |-> "gyeongchip", lon |-> 345, monthNum |-> 2],
     [name |-> "cheongmyeong", lon |-> 15, monthNum |-> 3],
     [name |-> "ipha",      lon |-> 45,  monthNum |-> 4],
     [name |-> "mangjong",  lon |-> 75,  monthNum |-> 5],
     [name |-> "soseo",     lon |-> 105, monthNum |-> 6],
     [name |-> "ipchu",     lon |-> 135, monthNum |-> 7],
     [name |-> "baengno",   lon |-> 165, monthNum |-> 8],
     [name |-> "hallo",     lon |-> 195, monthNum |-> 9],
     [name |-> "ipdong",    lon |-> 225, monthNum |-> 10],
     [name |-> "daeseol",   lon |-> 255, monthNum |-> 11],
     [name |-> "sohan",     lon |-> 285, monthNum |-> 12] >>

\* TERM_MONTH[termName]: the calendar month in which the term falls
TERM_MONTH(termName) ==
  LET i == CHOOSE k \in 1..12 : TermDefs[k].name = termName
  IN  IF TermDefs[i].monthNum = 12 THEN 1 ELSE TermDefs[i].monthNum + 1

\* createError with the details dropped
createErrorNoDetails(code, details) ==
  [code |-> code, details |-> [termName |-> "", year |-> 0]]

\* createError(code, details): the structured SajuError
createError(code, details) == [code |-> code, details |-> details]

\* the offset of the sun's longitude from the target at instant j
TermOffset(j, target) == (sunLongitude(j) - target * 10000) % 3600000

\* The daily sampling loop of findSolarTerm (i = 0..49; prevOffset is the
\* offset of sample i - 1, null before sample 0): the index of the first
\* sample that shows the crossing, 0 if none does.
SampleLoop(j0, target) ==
  LET crossing(i) == /\ TermOffset(j0 + (i - 1) * 1440, target) > 3000000
                     /\ TermOffset(j0 + i * 1440, target) < 600000
  IN  IF \E i \in 1..49 : crossing(i)
      THEN CHOOSE i \in 1..49 : crossing(i) /\ \A k \in 1..(i - 1) : ~crossing(k)
      ELSE 0

\* the number of rounds of the bisection loop
BisectRounds == 52

\* The rounds k .. until - 1 of the bisection loop on [a, b]: a, b and the
\* number of rounds run so far.
RECURSIVE BisectSteps(_, _, _, _, _)
BisectSteps(a, b, target, k, until) ==
  IF k >= until THEN [a |-> a, b |-> b, steps |-> k]
  ELSE Only({ IF TermOffset(m, target) > 1800000
              THEN BisectSteps(m, b, target, k + 1, until)
              ELSE BisectSteps(a, m, target, k + 1, until) :
              m \in {(a + b) \div 2} })

\* a bisection that stops as soon as the interval is a minute wide
RECURSIVE BisectUntilSettled(_, _, _, _)
BisectUntilSettled(a, b, target, k) ==
  IF k >= BisectRounds \/ b - a <= 1
  THEN [mid |-> (a + b) \div 2, steps |-> k]
  ELSE Only({ IF TermOffset(m, target) > 1800000
              THEN BisectUntilSettled(m, b, target, k + 1)
              ELSE BisectUntilSettled(a, m, target, k + 1) :
              m \in {(a + b) \div 2} })

\* The bisection between a and b (for k = 0 .. 51, no early exit), run in
\* four quarters: (a + b) / 2 after the last round, and the rounds run.
Bisect(a, b, target, k) ==
  Only({ Only({ Only({ Only({ [mid |-> (q4.a + q4.b) \div 2,
                               steps |-> q4.steps] :
           q4 \in {BisectSteps(q3.a, q3.b, target, q3.steps, BisectRounds)} }) :
           q3 \in {BisectSteps(q2.a, q2.b, target, q2.steps,
                               (3 * BisectRounds) \div 4)} }) :
           q2 \in {BisectSteps(q1.a, q1.b, target, q1.steps,
                               BisectRounds \div 2)} }) :
           q1 \in {BisectSteps(a, b, target, k, BisectRounds \div 4)} })

\* the first sample instant j0 of findSolarTerm
TermSearchStart(year, termName) ==
  LET sm == TERM_MONTH(termName)
      startDays == IF sm = 1 THEN DaysFromCivil(year - 1, 12, 17)
                   ELSE DaysFromCivil(year, sm, 1 - 15)
      sd == CivilFromDays(startDays)
  IN  julianDay(sd.year, sd.month, sd.day, 0, 0)

\* The search of findSolarTerm without the cache: the crossing sample and the
\* refined instant as a KST Date.  An Invalid Date start makes every sample
\* NaN, so no crossing is seen.
TermSearch(year, termName, targetLongitude) ==
  IF ~DateValid(year)
  THEN [found |-> FALSE, samples |-> 50, steps |-> 0, value |-> 0]
  ELSE Only({
         Only({ IF i = 0
                THEN [found |-> FALSE, samples |-> 50, steps |-> 0,
                      value |-> 0]
                ELSE Only({ [found |-> TRUE, samples |-> i + 1,
                             steps |-> bs.steps, value |-> jdToKST(bs.mid)] :
                            bs \in {Bisect(j0 + (i - 1) * 1440,
                                           j0 + i * 1440,
                                           targetLongitude, 0)} }) :
                i \in {SampleLoop(j0, targetLongitude)} }) :
         j0 \in {TermSearchStart(year, termName)} })

CacheKey(year, termName) == <<year, termName>>

\* findSolarTerm past the cache lookup: the search, and the store of a found
\* value
findSolarTermMiss(cache, year, termName, targetLongitude) ==
  LET key == CacheKey(year, termName)
  IN  Only({
        IF s.found
        THEN [ok |-> TRUE, value |-> s.value, err |-> None,
              cache |-> (key :> s.value) @@ cache,
              hit |-> FALSE, samples |-> s.samples, steps |-> s.steps,
              wrote |-> {key}]
        ELSE [ok |-> FALSE, value |-> 0,
              err |-> createError("TERM_NOT_FOUND",
                                  [termName |-> termName, year |-> year]),
              cache |-> cache, hit |-> FALSE, samples |-> s.samples,
              steps |-> s.steps, wrote |-> {}] :
        s \in {TermSearch(year, termName, targetLongitude)} })

\* findSolarTerm without the cache lookup
findSolarTermNoCacheRead(cache, year, termName, targetLongitude) ==
  findSolarTermMiss(cache, year, termName, targetLongitude)

\* findSolarTerm with a cache lookup by term name alone
findSolarTermAnyYear(cache, year, termName, targetLongitude) ==
  LET keys == {k \in DOMAIN cache : k[2] = termName}
  IN  IF keys # {}
      THEN [ok |-> TRUE, value |-> cache[CHOOSE k \in keys : TRUE],
            err |-> None, cache |-> cache,
            hit |-> TRUE, samples |-> 0, steps |-> 0, wrote |-> {}]
      ELSE findSolarTermMiss(cache, year, termName, targetLongitude)

\* findSolarTerm(year, termName, targetLongitude) on the cache `cache`:
\* the outcome (value or thrown error), the cache afterwards, and what the
\* call did (hit, samples taken, keys written).
findSolarTerm(cache, year, termName, targetLongitude) ==
  LET key == CacheKey(year, termName)
  IN  IF key \in DOMAIN cache
      THEN [ok |-> TRUE, value |-> cache[key], err |-> None, cache |-> cache,
            hit |-> TRUE, samples |-> 0, steps |-> 0, wrote |-> {}]
      ELSE findSolarTermMiss(cache, year, termName, targetLongitude)

\* ------------------------------------------------------------------------
\* SajuCalculator
\* ------------------------------------------------------------------------

\* the reference day 2000-01-01 and its day-pillar index; the reference year
\* and its year-pillar index
REF_DATE == DateOf(2000, 1, 1, 0, 0)

REF_DAY_IDX == 54

REF_YEAR == 1984

REF_YEAR_IDX == 0

\* GAPJA_INDEX_MAP["stem,branch"]: the 60-cycle index with that stem and
\* branch; -1 stands for undefined (no such pair in the cycle)
GAPJA_INDEX_MAP(stem, branch) ==
  IF stem % 2 = branch % 2 THEN (6 * stem - 5 * branch) % 60 ELSE -1

\* TIME_BOUNDARIES: branch k (1..11) covers [120k - 60, 120k + 60) minutes
TIME_BOUNDARIES ==
  [k \in 1..11 |-> [start |-> 120 * k - 60, end |-> 120 * k + 60, branch |-> k]]

getHourBranch(hour, minute) ==
  LET totalMinutes == hour * 60 + minute
  IN  IF totalMinutes >= 1380 \/ totalMinutes < 60 THEN 0
      ELSE IF \E k \in 1..11 : totalMinutes >= TIME_BOUNDARIES[k].start
                               /\ totalMinutes < TIME_BOUNDARIES[k].end
           THEN TIME_BOUNDARIES[CHOOSE k \in 1..11 :
                    totalMinutes >= TIME_BOUNDARIES[k].start
                    /\ totalMinutes < TIME_BOUNDARIES[k].end].branch
           ELSE 0

\* OHENG_RELATIONS: generate (saeng) and overcome (geuk) cycles over the
\* element numbers 0 mok, 1 hwa, 2 to, 3 geum, 4 su
OhengSaeng(e) == (e + 1) % 5

OhengGeuk(e) == (e + 2) % 5

getTenGod(dayStemIdx, targetStemIdx) ==
  LET dayElement == dayStemIdx \div 2
      targetElement == targetStemIdx \div 2
      sameParity == (dayStemIdx % 2) = (targetStemIdx % 2)
  IN  IF dayStemIdx = targetStemIdx THEN "bigyeon"
      ELSE IF dayElement = targetElement
        THEN (IF sameParity THEN "bigyeon" ELSE "geopjae")
      ELSE IF OhengSaeng(dayElement) = targetElement
        THEN (IF sameParity THEN "siksin" ELSE "sanggwan")
      ELSE IF OhengGeuk(dayElement) = targetElement
        THEN (IF sameParity THEN "pyeonjae" ELSE "jeongjae")
      ELSE IF OhengSaeng(targetElement) = dayElement
        THEN (IF sameParity THEN "pyeonin" ELSE "jeongin")
      ELSE IF OhengGeuk(targetElement) = dayElement
        THEN (IF sameParity THEN "pyeongwan" ELSE "jeonggwan")
      ELSE "?"

\* The findSolarTerm calls of one operation, in order: reqs is a sequence of
\* [year, name, lon].  Without a handler the first failure ends the run
\* (the exception propagates); dts holds the values resolved before it and
\* failures counts the findSolarTerm calls that threw.
RECURSIVE ResolveTermsCatch(_, _, _, _)
ResolveTermsCatch(cache, reqs, i, dts) ==
  IF i > Len(reqs)
  THEN [ok |-> TRUE, cache |-> cache, dts |-> dts, wrote |-> {},
        failures |-> 0, err |-> createError("", [termName |-> "", year |-> 0])]
  ELSE Only({
         Only({ [rest EXCEPT !.wrote = r.wrote \cup rest.wrote,
                             !.failures = rest.failures
                                            + (IF r.ok THEN 0 ELSE 1)] :
                rest \in {ResolveTermsCatch(r.cache, reqs, i + 1,
                             Append(dts, IF r.ok THEN r.value ELSE 0))} }) :
         r \in {findSolarTerm(cache, reqs[i].year, reqs[i].name,
                              reqs[i].lon)} })

RECURSIVE ResolveTerms(_, _, _, _)
ResolveTerms(cache, reqs, i, dts) ==
  IF i > Len(reqs)
  THEN [ok |-> TRUE, cache |-> cache, dts |-> dts, wrote |-> {},
        failures |-> 0, err |-> createError("", [termName |-> "", year |-> 0])]
  ELSE Only({
         IF ~r.ok
         THEN [ok |-> FALSE, cache |-> r.cache, dts |-> dts, wrote |-> {},
               failures |-> 1, err |-> r.err]
         ELSE Only({ [rest EXCEPT !.wrote = r.wrote \cup rest.wrote] :
                     rest \in {ResolveTerms(r.cache, reqs, i + 1,
                                            Append(dts, r.value))} }) :
         r \in {findSolarTerm(cache, reqs[i].year, reqs[i].name,
                              reqs[i].lon)} })

\* the boundary requests of SajuCalculator.calculate for sajuYear: the 12
\* termDefs (sohan of the next year) and then next year's ipchun
BoundaryReqs(sajuYear) ==
  [k \in 1..13 |->
     IF k = 13 THEN [year |-> sajuYear + 1, name |-> "ipchun", lon |-> 315]
     ELSE [year |-> IF k = 12 THEN sajuYear + 1 ELSE sajuYear,
           name |-> TermDefs[k].name, lon |-> TermDefs[k].lon]]

\* the interval test with both ends open
RECURSIVE MonthIntervalOpen(_, _, _)
MonthIntervalOpen(dts, birthKST, i) ==
  IF i > 12 THEN 0
  ELSE IF birthKST > dts[i] /\ birthKST < dts[i + 1] THEN i
  ELSE MonthIntervalOpen(dts, birthKST, i + 1)

\* the interval loop of calculate: the first i in 1..12 whose half-open
\* interval [dts[i], dts[i+1]) holds birthKST; 0 when none does (the
\* defaults monthNum = 1, ipchun .. gyeongchip then stay)
RECURSIVE MonthInterval(_, _, _)
MonthInterval(dts, birthKST, i) ==
  IF i > 12 THEN 0
  ELSE IF birthKST >= dts[i] /\ birthKST < dts[i + 1] THEN i
  ELSE MonthInterval(dts, birthKST, i + 1)

Positions == <<"hour", "day", "month", "year">>

\* Math.floor in the place of Math.round
FloorDays(diff) == diff \div 1440

\* Math.round(ms / 86400000) of a time difference given in minutes
\* (Math.round takes the nearest integer, a half goes up)
RoundDays(diff) == (diff + 720) \div 1440

\* the day index with the rollover at the branch boundary of 01:00 as well
dayPillarRolloverByBranch(year, month, day, hour, shift) ==
  (REF_DAY_IDX
   + RoundDays(DateOf(year, month, day, 0, 0) - shift
               + (IF hour >= 23 \/ hour < 1 THEN 1440 ELSE 0) - REF_DATE)) % 60

\* calculate, day pillar: sajuDate is the local midnight of the date, one
\* day later from 23:00 on; `shift` is how many minutes the local clock of
\* that date runs ahead of the clock REF_DATE was built with (summer time,
\* an older zone offset), which Math.round absorbs
dayPillar(year, month, day, hour, shift) ==
  LET sajuDate == DateOf(year, month, day, 0, 0) - shift
                    + (IF hour >= 23 THEN 86400000 \div 60000 ELSE 0)
      dayDiff == RoundDays(sajuDate - REF_DATE)
  IN  (REF_DAY_IDX + dayDiff) % 60

\* calculate, hour pillar: [stem, branch, idx] from the day index
hourPillar(dayIdx, hour, minute) ==
  LET hourBranch == getHourBranch(hour, minute)
      dayStem == dayIdx % 10
      hourStemStart == ((dayStem % 5) * 2) % 10
      hourStem == (hourStemStart + hourBranch) % 10
  IN  [stem |-> hourStem, branch |-> hourBranch,
       idx |-> GAPJA_INDEX_MAP(hourStem, hourBranch)]

\* a birth at the start-of-spring instant itself left in the year before
sajuYearInclusive(birthKST, ipchunThis, year) ==
  IF birthKST <= ipchunThis THEN year - 1 ELSE year

\* calculate: the year a birth belongs to, turning at this year's ipchun
sajuYearOf(birthKST, ipchunThis, year) ==
  IF birthKST < ipchunThis THEN year - 1 ELSE year

\* calculate, year pillar: the index of sajuYear
yearPillar(sajuYear) == (REF_YEAR_IDX + (sajuYear - REF_YEAR)) % 60

\* the month branch taken as monthNum itself, without the shift to in
monthPillarUnshifted(yearIdx, monthNum) ==
  LET monthStemStart == ((yearIdx % 5) * 2 + 2) % 10
      monthStem == (monthStemStart + (monthNum - 1)) % 10
  IN  [stem |-> monthStem, branch |-> monthNum % 12,
       idx |-> GAPJA_INDEX_MAP(monthStem, monthNum % 12)]

\* calculate, month pillar: [stem, branch, idx] from the year index and
\* the month number of the governing term
monthPillar(yearIdx, monthNum) ==
  LET yearStem == yearIdx % 10
      monthStemStart == ((yearStem % 5) * 2 + 2) % 10
      monthStem == (monthStemStart + (monthNum - 1)) % 10
      monthBranch == (monthNum + 1) % 12
  IN  [stem |-> monthStem, branch |-> monthBranch,
       idx |-> GAPJA_INDEX_MAP(monthStem, monthBranch)]

\* SajuCalculator.calculate(year, month, day, hour, minute) on `cache`:
\* [ok, err, cache, wrote, result]; result is <<the result object>> or <<>>
\* when an exception left the function.
SajuCalculate(cache, year, month, day, hour, minute) ==
  Only({
      IF ~first.ok
      THEN [ok |-> FALSE, err |-> first.err, cache |-> first.cache,
            wrote |-> first.wrote, failures |-> first.failures,
            result |-> <<>>]
      ELSE
      LET birthKST == DateOf(year, month, day, hour, minute)
          dayIdx == dayPillar(year, month, day, hour, 0)
          hourIdx == hourPillar(dayIdx, hour, minute).idx
          ipchunThis == first.dts[1]
          sajuYear == sajuYearOf(birthKST, ipchunThis, year)
          yearIdx == yearPillar(sajuYear)
      IN  Only({
          IF ~bounds.ok
          THEN [ok |-> FALSE, err |-> bounds.err, cache |-> bounds.cache,
                wrote |-> first.wrote \cup bounds.wrote,
                failures |-> first.failures + bounds.failures,
                result |-> <<>>]
          ELSE
          LET hit == MonthInterval(bounds.dts, birthKST, 1)
              i == IF hit = 0 THEN 1 ELSE hit
              monthNum == TermDefs[i].monthNum
              monthIdx == monthPillar(yearIdx, monthNum).idx
              idxs == [hour |-> hourIdx, day |-> dayIdx,
                       month |-> monthIdx, year |-> yearIdx]
              dsi == dayIdx % 10
          IN  [ok |-> TRUE, err |-> bounds.err, cache |-> bounds.cache,
               wrote |-> first.wrote \cup bounds.wrote,
               failures |-> first.failures + bounds.failures,
               result |-> <<
                 [idxs |-> idxs,
                  tgStem |-> [p \in {Positions[k] : k \in 1..4} |->
                                IF p = "day" THEN "ilgan"
                                ELSE getTenGod(dsi, idxs[p] % 10)],
                  sajuYear |-> sajuYear,
                  monthNum |-> monthNum,
                  intervalFound |-> hit # 0,
                  boundaries |-> bounds.dts,
                  curTerm |-> TermDefs[i].name,
                  curTermDt |-> bounds.dts[i],
                  nextTerm |-> IF i = 12 THEN "ipchun" ELSE TermDefs[i + 1].name,
                  nextTermDt |-> bounds.dts[i + 1],
                  birthKST |-> birthKST,
                  input |-> [year |-> year, month |-> month, day |-> day,
                             hour |-> hour, minute |-> minute]] >>] :
          bounds \in {ResolveTerms(first.cache, BoundaryReqs(sajuYear),
                                   1, <<>>)} }) :
      first \in {ResolveTerms(cache,
                   <<[year |-> year, name |-> "ipchun", lon |-> 315]>>,
                   1, <<>>)} })

\* ------------------------------------------------------------------------
\* DaeunCalculator
\* ------------------------------------------------------------------------

\* the direction taken from the gender alone
daeunForwardMaleOnly(yearIdx, gender) == gender = "m"

\* DaeunCalculator.calculate: forward
daeunForward(yearIdx, gender) ==
  LET yearStemIdx == yearIdx % 10
      isYang == yearStemIdx % 2 = 0
      isMale == gender = "m"
  IN  (isYang /\ isMale) \/ (~isYang /\ ~isMale)

\* the while loops bringing startMonth into 1..12
RECURSIVE DaeunStart(_, _)
DaeunStart(startMonth, startYear) ==
  IF startMonth > 12 THEN DaeunStart(startMonth - 12, startYear + 1)
  ELSE IF startMonth < 1 THEN DaeunStart(startMonth + 12, startYear - 1)
  ELSE [startMonth |-> startMonth, startYear |-> startYear]

\* DaeunCalculator.calculate(result, gender): [list, forward, startAge,
\* daeunYears, daeunMonths]; times are minutes, three days (4320 minutes)
\* make a year and Math.round(remainDays / 3 * 12) counts spans of 360
\* minutes.  Of a list entry idx, age, calYear, startMonth and tgStem are
\* kept.
DaeunCalculate(result, gender) ==
  LET forward == daeunForward(result.idxs.year, gender)
      birth == result.birthKST
      daysToBound == Max(0, IF forward THEN result.nextTermDt - birth
                            ELSE birth - result.curTermDt)
      daeunYears == daysToBound \div 4320
      remainDays == daysToBound - daeunYears * 4320
      daeunMonths == (remainDays + 180) \div 360
      start == DaeunStart(result.input.month + daeunMonths,
                          result.input.year + daeunYears)
      startKoreanAge == start.startYear - result.input.year + 1
      monthIdx60 == result.idxs.month
      dayStemIdx == result.idxs.day % 10
  IN  [list |-> [i \in 1..12 |->
         LET idx == IF forward THEN (monthIdx60 + i) % 60
                    ELSE (monthIdx60 - i) % 60
         IN  [idx |-> idx,
              age |-> startKoreanAge + (i - 1) * 10,
              calYear |-> start.startYear + (i - 1) * 10,
              startMonth |-> start.startMonth,
              tgStem |-> getTenGod(dayStemIdx, idx % 10)]],
       forward |-> forward,
       startAge |-> startKoreanAge,
       daeunYears |-> daeunYears,
       daeunMonths |-> daeunMonths]

\* ------------------------------------------------------------------------
\* WolunCalculator
\* ------------------------------------------------------------------------

\* One pass of the termDefs loop of WolunCalculator.calculate from entry i:
\* each findSolarTerm call sits in try/catch, a failure leaves termDate null
\* and actualMonth falls back to monthNum.
RECURSIVE WolunLoop(_, _, _, _)
WolunLoop(cache, targetYear, i, acc) ==
  IF i > 12 THEN acc
  ELSE
  LET def == TermDefs[i]
      yearIdx == (REF_YEAR_IDX + (targetYear - REF_YEAR)) % 60
      monthStemStart == (((yearIdx % 10) % 5) * 2 + 2) % 10
      monthStem == (monthStemStart + (def.monthNum - 1)) % 10
      monthBranch == (def.monthNum + 1) % 12
      searchYear == IF def.monthNum = 12 THEN targetYear + 1 ELSE targetYear
  IN  Only({
        WolunLoop(r.cache, targetYear, i + 1,
          [cache |-> r.cache,
           wrote |-> acc.wrote \cup r.wrote,
           failures |-> acc.failures + (IF r.ok THEN 0 ELSE 1),
           list |-> Append(acc.list,
             [idx |-> GAPJA_INDEX_MAP(monthStem, monthBranch),
              monthNum |-> def.monthNum,
              termName |-> def.name,
              termDtNull |-> ~r.ok,
              termDt |-> IF r.ok THEN r.value ELSE 0,
              actualMonth |-> IF r.ok
                              THEN CivilFromDays(r.value \div 1440).month
                              ELSE def.monthNum])]) :
        r \in {findSolarTerm(cache, searchYear, def.name, def.lon)} })

\* WolunCalculator.calculate(result, targetYear) on `cache`
WolunCalculate(cache, targetYear) ==
  WolunLoop(cache, targetYear, 1,
            [cache |-> cache, wrote |-> {}, failures |-> 0, list |-> <<>>])

\* ------------------------------------------------------------------------
\* BirthMoment
\* ------------------------------------------------------------------------

\* hour and minute are -1 for null (birth time unknown)
\* a cache field is <<>> for null and <<value>> once set
BirthMomentNew(year, month, day, hour, minute, gender) ==
  [year |-> year, month |-> month, day |-> day, hour |-> hour,
   minute |-> minute, hasTime |-> hour # -1, gender |-> gender,
   discrete |-> <<>>, continuous |-> <<>>, matrix |-> <<>>,
   oheng |-> <<>>, daeun |-> <<>>, saeun |-> <<>>, saeunRange |-> <<>>]

\* the clock time defaulting to midnight instead of noon
DiscreteClockMidnight(b) ==
  [h |-> IF b.hasTime THEN b.hour ELSE 0,
   m |-> IF b.hasTime THEN (IF b.minute = -1 THEN 0 ELSE b.minute) ELSE 0]

\* the clock time computeDiscrete hands to SajuCalculator.calculate
DiscreteClock(b) ==
  [h |-> IF b.hasTime THEN b.hour ELSE 12,
   m |-> IF b.hasTime THEN (IF b.minute = -1 THEN 0 ELSE b.minute) ELSE 0]

\* BirthMoment.computeDiscrete with the `if (this._discrete)` test left out
computeDiscreteAlways(cache, b) ==
  LET c == DiscreteClock(b)
  IN  Only({
        [ok |-> r.ok, err |-> r.err, cache |-> r.cache,
         wrote |-> r.wrote, hit |-> FALSE,
         bm |-> IF r.ok
                THEN [b EXCEPT !.discrete =
                        << [calc |-> r.result[1],
                            hasTime |-> b.hasTime] >>]
                ELSE b] :
        r \in {SajuCalculate(cache, b.year, b.month, b.day, c.h, c.m)} })

\* BirthMoment.computeDiscrete on `cache`: [ok, err, cache, wrote, hit, bm];
\* bm.discrete is <<the calculate result with _longitude/_hasTime attached>>
computeDiscrete(cache, b) ==
  IF b.discrete # <<>>
  THEN [ok |-> TRUE, err |-> createError("", [termName |-> "", year |-> 0]),
        cache |-> cache, wrote |-> {}, hit |-> TRUE, bm |-> b]
  ELSE LET c == DiscreteClock(b)
       IN  Only({
             [ok |-> r.ok, err |-> r.err, cache |-> r.cache,
              wrote |-> r.wrote, hit |-> FALSE,
              bm |-> IF r.ok
                     THEN [b EXCEPT !.discrete =
                             << [calc |-> r.result[1],
                                 hasTime |-> b.hasTime] >>]
                     ELSE b] :
             r \in {SajuCalculate(cache, b.year, b.month, b.day, c.h, c.m)} })

\* SaeunCalculator.calculate(result, startYear, endYear): of an entry year,
\* idx, age and tgStem are kept
SaeunCalculate(result, startYear, endYear) ==
  LET dayStemIdx == result.idxs.day % 10
      birthYear == result.input.year
  IN  [i \in 1..Max(0, endYear - startYear + 1) |->
         LET y == startYear + i - 1
             yearIdx == (((REF_YEAR_IDX + (y - REF_YEAR)) % 60) + 60) % 60
         IN  [year |-> y, idx |-> yearIdx, age |-> y - birthYear + 1,
              tgStem |-> getTenGod(dayStemIdx, yearIdx % 10)]]

\* What the derived calculators imported by BirthMoment are handed: each is
\* a function of these arguments alone.
computeContinuousSnapshot(discrete, h, m) ==
  [idxs |-> discrete.calc.idxs, h |-> h, m |-> m]

computeTwelveStageMatrix(discrete) == [idxs |-> discrete.calc.idxs]

calculateWeightedOheng(discrete, hasTime) ==
  [idxs |-> discrete.calc.idxs, hasTime |-> hasTime]

\* A compute* method on `cache` yields [ok, cache, wrote, bm, ran, value]:
\* ran is the set of calculations the call executed, value is <<the value
\* returned>> or <<>> when the call threw.
MethodThrew(d, ran) ==
  [ok |-> FALSE, cache |-> d.cache, wrote |-> d.wrote, bm |-> d.bm,
   ran |-> ran, value |-> <<>>]

DiscreteRan(d) == IF d.hit THEN {} ELSE {"discrete"}

\* computeDiscrete() as a method call
computeDiscreteCall(cache, b) ==
  Only({ IF d.ok
         THEN [ok |-> TRUE, cache |-> d.cache, wrote |-> d.wrote,
               bm |-> d.bm, ran |-> DiscreteRan(d), value |-> d.bm.discrete]
         ELSE MethodThrew(d, DiscreteRan(d)) :
         d \in {computeDiscrete(cache, b)} })

\* computeContinuous()
computeContinuous(cache, b) ==
  IF b.continuous # <<>>
  THEN [ok |-> TRUE, cache |-> cache, wrote |-> {}, bm |-> b, ran |-> {},
        value |-> b.continuous]
  ELSE Only({ IF ~d.ok THEN MethodThrew(d, DiscreteRan(d))
              ELSE LET c == DiscreteClock(b)
                       v == computeContinuousSnapshot(d.bm.discrete[1],
                                                      c.h, c.m)
                   IN  [ok |-> TRUE, cache |-> d.cache, wrote |-> d.wrote,
                        bm |-> [d.bm EXCEPT !.continuous = <<v>>],
                        ran |-> DiscreteRan(d) \cup {"continuous"},
                        value |-> <<v>>] :
              d \in {computeDiscrete(cache, b)} })

\* computeMatrix()
computeMatrix(cache, b) ==
  IF b.matrix # <<>>
  THEN [ok |-> TRUE, cache |-> cache, wrote |-> {}, bm |-> b, ran |-> {},
        value |-> b.matrix]
  ELSE Only({ IF ~d.ok THEN MethodThrew(d, DiscreteRan(d))
              ELSE LET v == computeTwelveStageMatrix(d.bm.discrete[1])
                   IN  [ok |-> TRUE, cache |-> d.cache, wrote |-> d.wrote,
                        bm |-> [d.bm EXCEPT !.matrix = <<v>>],
                        ran |-> DiscreteRan(d) \cup {"matrix"},
                        value |-> <<v>>] :
              d \in {computeDiscrete(cache, b)} })

\* computeOheng()
computeOheng(cache, b) ==
  IF b.oheng # <<>>
  THEN [ok |-> TRUE, cache |-> cache, wrote |-> {}, bm |-> b, ran |-> {},
        value |-> b.oheng]
  ELSE Only({ IF ~d.ok THEN MethodThrew(d, DiscreteRan(d))
              ELSE LET v == calculateWeightedOheng(d.bm.discrete[1],
                                                   b.hasTime)
                   IN  [ok |-> TRUE, cache |-> d.cache, wrote |-> d.wrote,
                        bm |-> [d.bm EXCEPT !.oheng = <<v>>],
                        ran |-> DiscreteRan(d) \cup {"oheng"},
                        value |-> <<v>>] :
              d \in {computeDiscrete(cache, b)} })

\* computeDaeun()
computeDaeun(cache, b) ==
  IF b.daeun # <<>>
  THEN [ok |-> TRUE, cache |-> cache, wrote |-> {}, bm |-> b, ran |-> {},
        value |-> b.daeun]
  ELSE Only({ IF ~d.ok THEN MethodThrew(d, DiscreteRan(d))
              ELSE Only({ [ok |-> TRUE, cache |-> d.cache,
                           wrote |-> d.wrote,
                           bm |-> [d.bm EXCEPT !.daeun = <<v>>],
                           ran |-> DiscreteRan(d) \cup {"daeun"},
                           value |-> <<v>>] :
                          v \in {DaeunCalculate(d.bm.discrete[1].calc,
                                                b.gender)} }) :
              d \in {computeDiscrete(cache, b)} })

\* computeSaeun(startYear, endYear) returning the cached list whatever
\* range it was computed for
computeSaeunAnyRange(cache, b, startYear, endYear) ==
  IF b.saeun # <<>>
  THEN [ok |-> TRUE, cache |-> cache, wrote |-> {}, bm |-> b, ran |-> {},
        value |-> b.saeun]
  ELSE Only({ IF ~d.ok THEN MethodThrew(d, DiscreteRan(d))
              ELSE Only({ [ok |-> TRUE, cache |-> d.cache,
                           wrote |-> d.wrote,
                           bm |-> [d.bm EXCEPT
                                     !.saeun = <<v>>,
                                     !.saeunRange = <<startYear, endYear>>],
                           ran |-> DiscreteRan(d) \cup {"saeun"},
                           value |-> <<v>>] :
                          v \in {SaeunCalculate(d.bm.discrete[1].calc,
                                          startYear, endYear)} }) :
              d \in {computeDiscrete(cache, b)} })

\* computeSaeun(startYear, endYear)
computeSaeun(cache, b, startYear, endYear) ==
  IF b.saeun # <<>> /\ b.saeunRange # <<>>
     /\ b.saeunRange[1] = startYear /\ b.saeunRange[2] = endYear
  THEN [ok |-> TRUE, cache |-> cache, wrote |-> {}, bm |-> b, ran |-> {},
        value |-> b.saeun]
  ELSE Only({ IF ~d.ok THEN MethodThrew(d, DiscreteRan(d))
              ELSE Only({ [ok |-> TRUE, cache |-> d.cache,
                           wrote |-> d.wrote,
                           bm |-> [d.bm EXCEPT
                                     !.saeun = <<v>>,
                                     !.saeunRange = <<startYear, endYear>>],
                           ran |-> DiscreteRan(d) \cup {"saeun"},
                           value |-> <<v>>] :
                          v \in {SaeunCalculate(d.bm.discrete[1].calc,
                                          startYear, endYear)} }) :
              d \in {computeDiscrete(cache, b)} })

\* computeWolun(year): of the monthly list the cycle indices are kept
computeWolun(cache, b, year) ==
  Only({ IF ~d.ok THEN MethodThrew(d, DiscreteRan(d))
         ELSE Only({ [ok |-> TRUE, cache |-> w.cache,
                      wrote |-> d.wrote \cup w.wrote, bm |-> d.bm,
                      ran |-> DiscreteRan(d) \cup {"wolun"},
                      value |-> << [k \in 1..Len(w.list) |->
                                      w.list[k].idx] >>] :
                     w \in {WolunCalculate(d.cache, year)} }) :
         d \in {computeDiscrete(cache, b)} })

\* ------------------------------------------------------------------------
\* Fortune scorer: numbers and tables
\* ------------------------------------------------------------------------

\* A factor, ratio or weighted amount x of the scorer is the integer x * U;
\* a disruption amount d is the integer d * 1000 * U.
U == 1000 * 1000

\* a * b / U, rounded to nearest (b <= U; split so no product passes 2^31)
MulU(a, b) ==
  (a \div 1000) * (b \div 1000)
    + ((a \div 1000) * (b % 1000) + (a % 1000) * (b \div 1000)
         + ((a % 1000) * (b % 1000)) \div 1000 + 500) \div 1000

Third == U \div 3

TwoThirds == (2 * U + 1) \div 3

Sixth == (U + 3) \div 6

Half == U \div 2

RECURSIVE SumTo(_, _)
SumTo(s, n) == IF n = 0 THEN 0 ELSE s[n] + SumTo(s, n - 1)

\* reduce((a, b) => a + b, 0) over a sequence of numbers
SumSeq(s) == SumTo(s, Len(s))

\* the sequence s with its entries evaluated
AsSeq(s) == SelectSeq(s, LAMBDA x : TRUE)

RECURSIVE Flatten(_, _)
Flatten(ss, n) == IF n = 0 THEN <<>> ELSE Flatten(ss, n - 1) \o ss[n]

\* OHENG: the five elements, numbered 0 mok, 1 hwa, 2 to, 3 geum, 4 su
OHENG == <<"mok", "hwa", "to", "geum", "su">>

\* one value per element, in OHENG order (element e is entry e + 1)
ElemVec(F(_)) == <<F(0), F(1), F(2), F(3), F(4)>>

CHEONGAN_OHENG(si) == si \div 2

JIJI_OHENG(bi) == <<4, 2, 0, 0, 2, 1, 1, 2, 3, 3, 2, 4>>[bi + 1]

\* polarity: 0 yang, 1 eum
CHEONGAN_EUMYANG(si) == si % 2

\* the polarity of the main hidden stem of each branch
BONGI_EUMYANG(bi) == <<1, 1, 0, 1, 0, 0, 1, 1, 0, 1, 0, 0>>[bi + 1]

\* BRANCH_OHENG_RATIOS[bi]: the element ratios of branch bi, in tenths
BRANCH_OHENG_RATIOS ==
  << <<0, 0, 0, 0, 10>>, <<0, 0, 6, 1, 3>>, <<6, 2, 2, 0, 0>>,
     <<10, 0, 0, 0, 0>>, <<3, 0, 6, 0, 1>>, <<0, 6, 2, 2, 0>>,
     <<0, 10, 0, 0, 0>>, <<1, 3, 6, 0, 0>>, <<0, 0, 2, 6, 2>>,
     <<0, 0, 0, 10, 0>>, <<0, 1, 6, 3, 0>>, <<2, 0, 2, 0, 6>> >>

\* BR_EL as the module is loaded: per branch the ratio of each element
\* (0 for an element the branch's list does not hold), times U
BR_EL_Loaded ==
  [bi \in 0..11 |-> ElemVec(LAMBDA e : BRANCH_OHENG_RATIOS[bi + 1][e + 1] * (U \div 10))]

\* the su ratios at the 12 branch centres, in tenths
BASE_WATER == <<10, 3, 0, 0, 1, 0, 0, 0, 2, 0, 0, 6>>

\* Numbers a + b * sqrt(3) with integer a, b, as <<a, b>>: the cosines and
\* sines of multiples of 30 degrees, doubled, are such numbers, and so are
\* their sums and products.
PAdd(x, y) == <<x[1] + y[1], x[2] + y[2]>>

PMul(x, y) == <<x[1] * y[1] + 3 * x[2] * y[2], x[1] * y[2] + x[2] * y[1]>>

PScale(c, x) == <<c * x[1], c * x[2]>>

RECURSIVE PSum(_, _, _)
PSum(F(_), a, b) == IF a > b THEN <<0, 0>> ELSE PAdd(F(a), PSum(F, a + 1, b))

\* sqrt(3), times U
Sqrt3U == 1732051

\* 2 * Math.cos and 2 * Math.sin of m * 30 degrees
Cos2(m) ==
  << <<2, 0>>, <<0, 1>>, <<1, 0>>, <<0, 0>>, <<-1, 0>>, <<0, -1>>,
     <<-2, 0>>, <<0, -1>>, <<-1, 0>>, <<0, 0>>, <<1, 0>>, <<0, 1>> >>[(m % 12) + 1]

Sin2(m) == Cos2(m + 9)

\* the sums an and bn of the coefficient loop for n = 0..6, times 20
\* (BASE_WATER in tenths, cosine and sine doubled)
FourierAn ==
  AsSeq([n1 \in 1..7 |->
    PSum(LAMBDA k : PScale(BASE_WATER[k + 1], Cos2((n1 - 1) * k)), 0, 11)])

FourierBn ==
  AsSeq([n1 \in 1..7 |->
    PSum(LAMBDA k : PScale(BASE_WATER[k + 1], Sin2((n1 - 1) * k)), 0, 11)])

\* 480 times the series of fourierBase at m * 30 degrees for the sums an, bn:
\* with _FA[0] = an / 12, _FA[n] = an / 6, _FB[n] = bn / 6 and
\* _FA[6] = an * nyquist / 12
FourierSeries(an, bn, m, nyquist) ==
  PAdd(PAdd(PScale(2, an[1]),
            PSum(LAMBDA n : PScale(2, PAdd(PMul(an[n + 1], Cos2(n * m)),
                                          PMul(bn[n + 1], Sin2(n * m)))),
                 1, 5)),
       PScale(nyquist, PMul(an[7], Cos2(6 * m))))

\* the series with the Nyquist coefficient _FA[6] left as an * 2 / 12
fourierBaseFullNyquist(theta) ==
  Only({ (v[1] * U + v[2] * Sqrt3U) \div 480 :
         v \in { Only({ FourierSeries(an, bn, (theta \div 30) % 12, 2) :
                        an \in {FourierAn}, bn \in {FourierBn} }) } })

\* fourierBase(rad) for rad = theta degrees, theta a multiple of 30; the
\* value times U
fourierBase(theta) ==
  Only({ (v[1] * U + v[2] * Sqrt3U) \div 480 :
         v \in { Only({ FourierSeries(an, bn, (theta \div 30) % 12, 1) :
                        an \in {FourierAn}, bn \in {FourierBn} }) } })

\* the renormalisation of ohengStrengthAtAngle
StrengthNormalised(mok, hwa, to, geum, su) ==
  Only({ IF total > 0
         THEN << (mok * (U \div 1000)) \div (total \div 1000),
                 (hwa * (U \div 1000)) \div (total \div 1000),
                 (to * (U \div 1000)) \div (total \div 1000),
                 (geum * (U \div 1000)) \div (total \div 1000),
                 (su * (U \div 1000)) \div (total \div 1000) >>
         ELSE ElemVec(LAMBDA e : U \div 5) :
         total \in {mok + hwa + to + geum + su} })

\* ohengStrengthAtAngle(theta) for theta a multiple of 30 degrees: the four
\* seasonal elements are rotations of the base by 90 degrees, to is the
\* complement, and the five are renormalised to sum 1
ohengStrengthAtAngle(theta) ==
  Only({ StrengthNormalised(mok, hwa, Max(U - su - mok - hwa - geum, 0),
                            geum, su) :
         su \in {Max(fourierBase(theta), 0)},
         mok \in {Max(fourierBase(theta - 90 + 360), 0)},
         hwa \in {Max(fourierBase(theta - 180 + 360), 0)},
         geum \in {Max(fourierBase(theta - 270 + 360), 0)} })

\* normalizeAngle(deg) on centi-degrees
normalizeAngle(deg) == ((deg % 36000) + 36000) % 36000

\* getAdjacentBranches(theta), theta in centi-degrees: t is given as the
\* angle t * 180 degrees, in centi-degrees
getAdjacentBranches(theta) ==
  LET norm == normalizeAngle(theta)
      leftIdx == (norm \div 3000) % 12
  IN  [leftIdx |-> leftIdx, rightIdx |-> (leftIdx + 1) % 12,
       tHalfTurn |-> (norm - leftIdx * 3000) * 6]

\* 0.5 - 0.5 * Math.cos(t * Math.PI), times U
CosineEase(tHalfTurn) == (U \div 2) - 50 * Sin(9000 - tHalfTurn)

\* the far neighbour written as well as the right one
allBranchInfluencesSpread(theta) ==
  LET a == getAdjacentBranches(theta)
      wRight == CosineEase(a.tHalfTurn)
  IN  [b \in 0..11 |->
         (IF b = a.leftIdx THEN U - wRight ELSE 0)
         + (IF b = a.rightIdx THEN wRight \div 2 ELSE 0)
         + (IF b = (a.rightIdx + 1) % 12 THEN wRight - wRight \div 2 ELSE 0)]

\* allBranchInfluences(theta): the 12 influence values, times U
allBranchInfluences(theta) ==
  LET a == getAdjacentBranches(theta)
      wRight == CosineEase(a.tHalfTurn)
  IN  [b \in 0..11 |->
         (IF b = a.leftIdx THEN U - wRight ELSE 0)
         + (IF b = a.rightIdx THEN wRight ELSE 0)]

\* getBlendedBranchProfile(angle): angle, dominantIdx, ohengRatio,
\* influences and totalInfluence of the returned profile (the ohengRatio of
\* BRANCH_PROFILES is the table of BRANCH_OHENG_RATIOS)
getBlendedBranchProfile(angle) ==
  LET theta == normalizeAngle(angle)
      leftIdx == (theta \div 3000) % 12
      rightIdx == (leftIdx + 1) % 12
      wRight == CosineEase((theta - leftIdx * 3000) * 6)
      wLeft == U - wRight
  IN  [angle |-> theta,
       dominantIdx |-> IF wLeft >= wRight THEN leftIdx ELSE rightIdx,
       ohengRatio |-> ElemVec(LAMBDA e :
                        MulU(wLeft, BR_EL_Loaded[leftIdx][e + 1])
                        + MulU(wRight, BR_EL_Loaded[rightIdx][e + 1])),
       influences |-> [b \in 0..11 |->
                        (IF b = leftIdx THEN wLeft ELSE 0)
                        + (IF b = rightIdx THEN wRight ELSE 0)],
       totalInfluence |-> wLeft + wRight]

\* clamp(val, min, max)
clamp(val, min, max) == Max(min, Min(max, val))

\* the angle counted from the start of the term instead of its middle
dateToMonthAngleFromStart(birthKST, curTermDate, nextTermDate, monthBranchIdx) ==
  LET span == nextTermDate - curTermDate
  IN  IF span <= 0 THEN normalizeAngle(monthBranchIdx * 3000)
      ELSE normalizeAngle(monthBranchIdx * 3000
             + (clamp(birthKST - curTermDate, 0, span) * 3000) \div span)

\* dateToMonthAngle(birthKST, curTermDate, nextTermDate, monthBranchIdx):
\* times in minutes, the angle in centi-degrees; fraction * 30 degrees is
\* (birth - cur) * 3000 / span, with birth - cur clamped to [0, span]
dateToMonthAngle(birthKST, curTermDate, nextTermDate, monthBranchIdx) ==
  LET span == nextTermDate - curTermDate
  IN  IF span <= 0 THEN normalizeAngle(monthBranchIdx * 3000)
      ELSE normalizeAngle(monthBranchIdx * 3000
             + (clamp(birthKST - curTermDate, 0, span) * 3000) \div span
             - 1500)

\* dateToYearAngle(birthKST, ipchunThisDate, ipchunNextDate, yearBranchIdx)
dateToYearAngle(birthKST, ipchunThisDate, ipchunNextDate, yearBranchIdx) ==
  LET span == ipchunNextDate - ipchunThisDate
  IN  IF span <= 0 THEN normalizeAngle(yearBranchIdx * 3000)
      ELSE normalizeAngle(yearBranchIdx * 3000
             + (clamp(birthKST - ipchunThisDate, 0, span) * 3000) \div span
             - 1500)

\* _angleToDist(angle): the strengths normalised by their sum; an element of
\* strength 0 is left out of the list (ratio 0 here)
angleToDist(angle) ==
  Only({ LET sum == SumSeq(raw)
             total == IF sum = 0 THEN 1 ELSE sum
         IN  ElemVec(LAMBDA e :
               IF raw[e + 1] > 0
               THEN (raw[e + 1] * (U \div 1000)) \div (total \div 1000)
               ELSE 0) :
         raw \in {ohengStrengthAtAngle(angle)} })

STEM_W(p) == 5

BR_W(p) == CASE p = "month" -> 30 [] p = "day" -> 20 [] OTHER -> 15

FORTUNE_STEM_W(fp) ==
  CASE fp = "daeun" -> 12 [] fp = "saeun" -> 8 [] fp = "wolun" -> 4

FORTUNE_BR_W(fp) ==
  CASE fp = "daeun" -> 18 [] fp = "saeun" -> 12 [] fp = "wolun" -> 6

\* an interaction weight of 1 for every natal position
FortuneInteractionFlat(np) == U

\* FORTUNE_INTERACTION_W[np] || 0.5
FORTUNE_INTERACTION_W(np) ==
  CASE np = "month" -> U [] np = "day" -> 770000 [] OTHER -> 500000

FORTUNE_DAMPEN == 350000

\* [a, b, element of the combine]
STEM_COMBINE ==
  << <<0, 5, 2>>, <<1, 6, 3>>, <<2, 7, 4>>, <<3, 8, 0>>, <<4, 9, 1>> >>

STEM_CLASH == << <<0, 6>>, <<1, 7>>, <<2, 8>>, <<3, 9>> >>

BRANCH_COMBINE ==
  << <<0, 1, 2>>, <<2, 11, 0>>, <<3, 10, 1>>, <<4, 9, 3>>, <<5, 8, 4>>,
     <<6, 7, 1>> >>

BRANCH_CLASH ==
  << <<0, 6>>, <<1, 7>>, <<2, 8>>, <<3, 9>>, <<4, 10>>, <<5, 11>> >>

TRIPLE_COMBINE ==
  << <<2, 6, 10, 1>>, <<5, 9, 1, 3>>, <<8, 0, 4, 4>>, <<11, 3, 7, 0>> >>

BANHAP_TABLE ==
  << <<2, 6, 1>>, <<6, 10, 1>>, <<5, 9, 3>>, <<9, 1, 3>>,
     <<8, 0, 4>>, <<0, 4, 4>>, <<11, 3, 0>>, <<3, 7, 0>> >>

WANGJI == {0, 3, 6, 9}

\* TONGGWAN_MAP[elA + elB]: the mediating element, -1 for undefined
TONGGWAN_MAP(elA, elB) ==
  CASE {elA, elB} = {4, 1} -> 0
    [] {elA, elB} = {0, 3} -> 4
    [] {elA, elB} = {1, 3} -> 2
    [] {elA, elB} = {0, 2} -> 1
    [] {elA, elB} = {2, 4} -> 3
    [] OTHER -> -1

\* disruption amounts (times 1000 * U)
CLASH_BASE_DISRUPTION == 12000000

DISRUPTION_CAP == 40000000

TONGGWAN_ABSORB == 750000

EOKBU_ABSORB == 250000

TEN_GODS ==
  << "bigyeon", "geopjae", "siksin", "sanggwan", "pyeonjae", "jeongjae",
     "pyeongwan", "jeonggwan", "pyeonin", "jeongin" >>

\* TEN_GODS_GROUPED: the five groups, each a pair of entries of TEN_GODS
TEN_GODS_GROUPED == << <<1, 2>>, <<3, 4>>, <<5, 6>>, <<7, 8>>, <<9, 10>> >>

\* ------------------------------------------------------------------------
\* OhengAnalyzer helpers
\* ------------------------------------------------------------------------

el2si(el, yy) == 2 * el + (IF yy = 1 THEN 1 ELSE 0)

PairMatch(s1, s2, t) == (s1 = t[1] /\ s2 = t[2]) \/ (s1 = t[2] /\ s2 = t[1])

\* the relations of a pair against a combine table and a clash table: the
\* combines first, then the clashes; el is the element of desc "hap(el)"
CheckPair(combines, clashes, s1, s2) ==
  LET haps == SelectSeq(combines, LAMBDA t : PairMatch(s1, s2, t))
      chungs == SelectSeq(clashes, LAMBDA t : PairMatch(s1, s2, t))
  IN  [i \in 1..Len(haps) |-> [type |-> "hap", el |-> haps[i][3]]]
        \o [i \in 1..Len(chungs) |-> [type |-> "chung", el |-> -1]]

checkStemPair(s1, s2) == CheckPair(STEM_COMBINE, STEM_CLASH, s1, s2)

checkBranchPair(b1, b2) == CheckPair(BRANCH_COMBINE, BRANCH_CLASH, b1, b2)

\* resFactor returning 0.5 for either member of every pair
resFactorSymmetric(p1, p2, target) == Half

resFactor(p1, p2, target) ==
  IF p1 = "hour" /\ p2 = "day" /\ target = "day" THEN Half
  ELSE IF p1 = "day" /\ p2 = "month" THEN Half
  ELSE IF p1 = "month" /\ p2 = "year" /\ target = "month" THEN Half
  ELSE U

\* ------------------------------------------------------------------------
\* Fortune scorer: computeProfile
\* ------------------------------------------------------------------------
\* natalDiscrete is [idxs |-> [hour, day, month, year]]; fortunePillars is
\* [daeun, saeun, wolun] with -1 for an absent pillar; natalAngles is <<>>
\* for null or <<[hour, day, month, year]>> with -1 for a null angle.

\* natalPositions with the hour pillar kept whatever hasTime says
natalPositionsWithHour(hasTime) == <<"hour", "day", "month", "year">>

natalPositions(hasTime) ==
  IF hasTime THEN <<"hour", "day", "month", "year">>
  ELSE <<"day", "month", "year">>

fortunePositions(fortunePillars) ==
  SelectSeq(<<"daeun", "saeun", "wolun">>, LAMBDA fp : fortunePillars[fp] # -1)

\* Step 1: sd[p] and bd[p] as built, before any relation is applied.  A
\* natal branch without an angle holds the row of the shared table BR_EL.
StemData(natalDiscrete, hasTime, fortunePillars) ==
  LET nat == natalPositions(hasTime)
      fort == fortunePositions(fortunePillars)
  IN  [i \in 1..(Len(nat) + Len(fort)) |->
         IF i <= Len(nat)
         THEN [p |-> nat[i], si |-> natalDiscrete.idxs[nat[i]] % 10,
               el |-> CHEONGAN_OHENG(natalDiscrete.idxs[nat[i]] % 10),
               w |-> STEM_W(nat[i])]
         ELSE [p |-> fort[i - Len(nat)],
               si |-> fortunePillars[fort[i - Len(nat)]] % 10,
               el |-> CHEONGAN_OHENG(fortunePillars[fort[i - Len(nat)]] % 10),
               w |-> FORTUNE_STEM_W(fort[i - Len(nat)])]]

BranchData(BR_EL, natalDiscrete, hasTime, fortunePillars, natalAngles) ==
  LET nat == natalPositions(hasTime)
      fort == fortunePositions(fortunePillars)
  IN  [i \in 1..(Len(nat) + Len(fort)) |->
         IF i <= Len(nat)
         THEN LET bi == natalDiscrete.idxs[nat[i]] % 12
              IN  [p |-> nat[i], bi |-> bi,
                   dist |-> IF natalAngles # <<>> /\ natalAngles[1][nat[i]] # -1
                            THEN angleToDist(natalAngles[1][nat[i]])
                            ELSE BR_EL[bi],
                   w |-> BR_W(nat[i]), yy |-> BONGI_EUMYANG(bi)]
         ELSE LET bi == fortunePillars[fort[i - Len(nat)]] % 12
              IN  [p |-> fort[i - Len(nat)], bi |-> bi,
                   dist |-> angleToDist(bi * 30),
                   w |-> FORTUNE_BR_W(fort[i - Len(nat)]),
                   yy |-> BONGI_EUMYANG(bi)]]

\* An event is one detected relation: the interactions entry it pushes
\* (type, source, target, el of its desc), the transform fractions it
\* applies (fs: to tr and, as of *= 1 - f, to `of` of each position) on the
\* stem or the branch row, and the clash event it collects, if any.
Event(type, row, source, target, el, fs, clash) ==
  [type |-> type, row |-> row, source |-> source, target |-> target,
   el |-> el, fs |-> fs, clash |-> clash]

\* a natal stem-combine that is recorded but transforms nothing
NatalStemEventsNoDiscount(s1, s2, p1, p2) ==
  LET rels == checkStemPair(s1, s2)
  IN  [i \in 1..Len(rels) |->
         IF rels[i].type = "hap"
         THEN Event("cheonganhap", "stem", <<p1>>, <<p2>>, rels[i].el,
                    <<>>, <<>>)
         ELSE Event("cheonganchung", "stem", <<p1>>, <<p2>>, -1, <<>>,
                    <<[elA |-> CHEONGAN_OHENG(s1), elB |-> CHEONGAN_OHENG(s2),
                       weight |-> U]>>)]

\* 2-1, stems of a natal adjacent pair
NatalStemEvents(s1, s2, p1, p2) ==
  LET rels == checkStemPair(s1, s2)
  IN  [i \in 1..Len(rels) |->
         IF rels[i].type = "hap"
         THEN Event("cheonganhap", "stem", <<p1>>, <<p2>>, rels[i].el,
                    <<[pos |-> p1, f |-> MulU(Third, resFactor(p1, p2, p1))],
                      [pos |-> p2, f |-> MulU(Third, resFactor(p1, p2, p2))]>>,
                    <<>>)
         ELSE Event("cheonganchung", "stem", <<p1>>, <<p2>>, -1, <<>>,
                    <<[elA |-> CHEONGAN_OHENG(s1), elB |-> CHEONGAN_OHENG(s2),
                       weight |-> U]>>)]

\* 2-1, branches of a natal adjacent pair
NatalBranchEvents(b1, b2, p1, p2) ==
  LET rels == checkBranchPair(b1, b2)
  IN  [i \in 1..Len(rels) |->
         IF rels[i].type = "hap"
         THEN Event("jijihap", "branch", <<p1>>, <<p2>>, rels[i].el,
                    <<[pos |-> p1, f |-> MulU(TwoThirds, resFactor(p1, p2, p1))],
                      [pos |-> p2, f |-> MulU(TwoThirds, resFactor(p1, p2, p2))]>>,
                    <<>>)
         ELSE Event("jijichung", "branch", <<p1>>, <<p2>>, -1, <<>>,
                    <<[elA |-> JIJI_OHENG(b1), elB |-> JIJI_OHENG(b2),
                       weight |-> U]>>)]

\* the element of the first BANHAP_TABLE row the two branches match, or -1
BanhapElement(bi1, bi2) ==
  LET rows == SelectSeq(BANHAP_TABLE, LAMBDA t : PairMatch(bi1, bi2, t))
  IN  IF rows = <<>> THEN -1 ELSE rows[1][3]

\* _applyBanhap(bd, p1, p2, interactions)
applyBanhap(bi1, bi2, p1, p2) ==
  LET el == BanhapElement(bi1, bi2)
      isPair == (p1 = "month" /\ p2 = "year") \/ (p1 = "day" /\ p2 = "hour")
      w1 == bi1 \in WANGJI
      w2 == bi2 \in WANGJI
      f1 == IF isPair
            THEN (IF w1 /\ ~w2 THEN Sixth ELSE Third)
            ELSE MulU(TwoThirds, resFactor(p1, p2, p1))
      f2 == IF isPair
            THEN (IF w1 /\ ~w2 THEN TwoThirds
                  ELSE IF ~w1 /\ w2 THEN Sixth ELSE Third)
            ELSE MulU(TwoThirds, resFactor(p1, p2, p2))
  IN  IF el = -1 THEN <<>>
      ELSE << Event("banhap", "branch", <<p1>>, <<p2>>, el,
                    <<[pos |-> p1, f |-> f1], [pos |-> p2, f |-> f2]>>, <<>>) >>

\* 2-1: the events of the natal adjacent pairs, in order
NatalEvents(sd, bd, numNatal) ==
  Flatten([k \in 1..(numNatal - 1) |->
             NatalStemEvents(sd[k].si, sd[k + 1].si, sd[k].p, sd[k + 1].p)
               \o NatalBranchEvents(bd[k].bi, bd[k + 1].bi, bd[k].p, bd[k + 1].p)
               \o applyBanhap(bd[k].bi, bd[k + 1].bi, bd[k].p, bd[k + 1].p)],
          numNatal - 1)

\* combinedStems / combinedBranches: the positions of the natal combines
CombinedPositions(natalEvents, type) ==
  UNION { {e.source[1], e.target[1]} :
            e \in {natalEvents[i] : i \in {j \in 1..Len(natalEvents) :
                                           natalEvents[j].type = type}} }

\* 2-2, stems of an overlay pillar against a natal position
FortuneStemEvents(sf, sn, fp, np, combinedStems) ==
  LET iw == FORTUNE_INTERACTION_W(np)
      f == MulU(MulU(Third, iw), FORTUNE_DAMPEN)
      rels == IF np \in combinedStems THEN <<>> ELSE checkStemPair(sf, sn)
  IN  [i \in 1..Len(rels) |->
         IF rels[i].type = "hap"
         THEN Event("cheonganhap", "stem", <<fp>>, <<np>>, rels[i].el,
                    <<[pos |-> fp, f |-> f], [pos |-> np, f |-> f]>>, <<>>)
         ELSE Event("cheonganchung", "stem", <<fp>>, <<np>>, -1, <<>>,
                    <<[elA |-> CHEONGAN_OHENG(sf), elB |-> CHEONGAN_OHENG(sn),
                       weight |-> MulU(iw, FORTUNE_DAMPEN)]>>)]

\* 2-2, branches of an overlay pillar against a natal position
FortuneBranchEvents(bf, bn, fp, np, combinedBranches) ==
  LET iw == FORTUNE_INTERACTION_W(np)
      f == MulU(MulU(TwoThirds, iw), FORTUNE_DAMPEN)
      rels == IF np \in combinedBranches THEN <<>> ELSE checkBranchPair(bf, bn)
  IN  [i \in 1..Len(rels) |->
         IF rels[i].type = "hap"
         THEN Event("jijihap", "branch", <<fp>>, <<np>>, rels[i].el,
                    <<[pos |-> fp, f |-> f], [pos |-> np, f |-> f]>>, <<>>)
         ELSE Event("jijichung", "branch", <<fp>>, <<np>>, -1, <<>>,
                    <<[elA |-> JIJI_OHENG(bf), elB |-> JIJI_OHENG(bn),
                       weight |-> MulU(iw, FORTUNE_DAMPEN)]>>)]

\* _applyBanhapWithWeight(bd, fp, np, iw, interactions), skipped for a natal
\* position of combinedBranches
applyBanhapWithWeight(bf, bn, fp, np, combinedBranches) ==
  LET el == BanhapElement(bf, bn)
      f == MulU(MulU(Third, FORTUNE_INTERACTION_W(np)), FORTUNE_DAMPEN)
  IN  IF np \in combinedBranches \/ el = -1 THEN <<>>
      ELSE << Event("banhap", "branch", <<fp>>, <<np>>, el,
                    <<[pos |-> fp, f |-> f], [pos |-> np, f |-> f]>>, <<>>) >>

\* 2-2: the events of every overlay pillar against every natal position
FortuneEvents(sd, bd, numNatal, combinedStems, combinedBranches) ==
  Flatten([k \in 1..((Len(sd) - numNatal) * numNatal) |->
             LET fi == numNatal + 1 + (k - 1) \div numNatal
                 ni == 1 + ((k - 1) % numNatal)
             IN  FortuneStemEvents(sd[fi].si, sd[ni].si, sd[fi].p, sd[ni].p,
                                   combinedStems)
                   \o FortuneBranchEvents(bd[fi].bi, bd[ni].bi, bd[fi].p,
                                          bd[ni].p, combinedBranches)
                   \o applyBanhapWithWeight(bd[fi].bi, bd[ni].bi, bd[fi].p,
                                            bd[ni].p, combinedBranches)],
          (Len(sd) - numNatal) * numNatal)

\* _applyTripleCombine(bd, allPositions, interactions, fortunePositions)
applyTripleCombine(bd, numNatal) ==
  Flatten([t \in 1..Len(TRIPLE_COMBINE) |->
             LET at(b) == SelectSeq([i \in 1..Len(bd) |-> i],
                                    LAMBDA i : bd[i].bi = b)
                 allTriple == at(TRIPLE_COMBINE[t][1])
                                \o at(TRIPLE_COMBINE[t][2])
                                \o at(TRIPLE_COMBINE[t][3])
                 hasFortune == \E n \in 1..Len(allTriple) :
                                 allTriple[n] > numNatal
                 damp == IF hasFortune THEN FORTUNE_DAMPEN ELSE U
                 f == MulU(MulU(TwoThirds, Half), damp)
             IN  IF /\ at(TRIPLE_COMBINE[t][1]) # <<>>
                    /\ at(TRIPLE_COMBINE[t][2]) # <<>>
                    /\ at(TRIPLE_COMBINE[t][3]) # <<>>
                 THEN << Event("samhap", "branch",
                               [n \in 1..Len(allTriple) |-> bd[allTriple[n]].p],
                               <<>>, TRIPLE_COMBINE[t][4],
                               [n \in 1..Len(allTriple) |->
                                  [pos |-> bd[allTriple[n]].p, f |-> f]],
                               <<>>) >>
                 ELSE <<>>],
          Len(TRIPLE_COMBINE))

\* Step 2: every event of the call, in the order the code detects them
ProfileEvents(sd, bd, numNatal) ==
  Only({ nat \o FortuneEvents(sd, bd, numNatal,
                              CombinedPositions(nat, "cheonganhap"),
                              CombinedPositions(nat, "jijihap"))
             \o applyTripleCombine(bd, numNatal) :
         nat \in {AsSeq(NatalEvents(sd, bd, numNatal))} })

\* tr of position p on a row after Step 2: its transforms {e, f} in order
Transforms(events, row, p) ==
  LET hits == SelectSeq(events, LAMBDA ev :
                ev.row = row /\ \E n \in 1..Len(ev.fs) : ev.fs[n].pos = p)
  IN  [i \in 1..Len(hits) |->
         [e |-> hits[i].el,
          f |-> hits[i].fs[CHOOSE n \in 1..Len(hits[i].fs) :
                             hits[i].fs[n].pos = p].f]]

\* `of` after Step 2: 1 times (1 - f) for each transform, in order
RECURSIVE OwnFactor(_, _)
OwnFactor(tr, n) ==
  IF n = 0 THEN U ELSE MulU(OwnFactor(tr, n - 1), U - tr[n].f)

\* the clash events collected in Step 2, in order
ClashEvents(events) ==
  Flatten([i \in 1..Len(events) |-> events[i].clash], Len(events))

\* interactions as returned
Interactions(events) ==
  [i \in 1..Len(events) |->
     [type |-> events[i].type, source |-> events[i].source,
      target |-> events[i].target, el |-> events[i].el]]

\* sd / bd after Step 2: the Step 1 entry with its `of` and tr
Transformed(data, events, row) ==
  AsSeq([i \in 1..Len(data) |->
           Only({ [base |-> data[i], tr |-> tr, of |-> OwnFactor(tr, Len(tr))] :
                  tr \in {AsSeq(Transforms(events, row, data[i].p))} })])

\* Step 3: the weighted element sums (before the disruption)
StemAmount(s, e) ==
  (IF s.base.el = e THEN s.base.w * s.of ELSE 0)
    + SumSeq([n \in 1..Len(s.tr) |->
                IF s.tr[n].e = e THEN s.base.w * s.tr[n].f ELSE 0])

BranchAmount(b, e) ==
  MulU(b.base.w * b.base.dist[e + 1], b.of)
    + SumSeq([n \in 1..Len(b.tr) |->
                IF b.tr[n].e = e THEN b.base.w * b.tr[n].f ELSE 0])

WeightedOheng(sdT, bdT) ==
  ElemVec(LAMBDA e :
    SumSeq([i \in 1..Len(sdT) |-> StemAmount(sdT[i], e)])
      + SumSeq([i \in 1..Len(bdT) |-> BranchAmount(bdT[i], e)]))

\* the disruption of one clash event
ClashDisruption(clash, oh, ohTotal) ==
  LET d == MulU(CLASH_BASE_DISRUPTION, clash.weight)
      bridgeEl == TONGGWAN_MAP(clash.elA, clash.elB)
      absorbed == IF bridgeEl # -1 /\ oh[bridgeEl + 1] * 10 > ohTotal
                  THEN MulU(d, U - TONGGWAN_ABSORB) ELSE d
  IN  IF clash.elA = 2 /\ clash.elB = 2 THEN absorbed \div 2 ELSE absorbed

\* rawDisruption of _computeDisruption before the cap
RawDisruption(clashEvents, oh, dayStemIdx) ==
  LET sum == SumSeq(oh)
      ohTotal == IF sum = 0 THEN 1 ELSE sum
      raw == SumSeq([i \in 1..Len(clashEvents) |->
                       ClashDisruption(clashEvents[i], oh, ohTotal)])
  IN  IF oh[CHEONGAN_OHENG(dayStemIdx) + 1] * 4 > ohTotal
      THEN MulU(raw, U - EOKBU_ABSORB) ELSE raw

\* _computeDisruption without the cap
computeDisruptionNoCap(clashEvents, oh, dayStemIdx) ==
  RawDisruption(clashEvents, oh, dayStemIdx)

\* _computeDisruption(clashEvents, oh, dayStemIdx)
computeDisruption(clashEvents, oh, dayStemIdx) ==
  Min(RawDisruption(clashEvents, oh, dayStemIdx), DISRUPTION_CAP)

\* Step 3.5 with the penalty taken from the elements of the clashes only
DisruptedClashingOnly(oh, clashEvents, dayStemIdx) ==
  IF Len(clashEvents) > 0
  THEN Only({ [penalty |-> pen,
               oh |-> IF pen > 0
                      THEN ElemVec(LAMBDA e :
                             IF \E i \in 1..Len(clashEvents) :
                                  e \in {clashEvents[i].elA, clashEvents[i].elB}
                             THEN MulU(oh[e + 1], U - pen \div 1000)
                             ELSE oh[e + 1])
                      ELSE oh] :
              pen \in {computeDisruption(clashEvents, oh, dayStemIdx)} })
  ELSE [penalty |-> 0, oh |-> oh]

\* Step 3.5: the totals after the disruption penalty
Disrupted(oh, clashEvents, dayStemIdx) ==
  IF Len(clashEvents) > 0
  THEN Only({ [penalty |-> pen,
               oh |-> IF pen > 0
                      THEN ElemVec(LAMBDA e : MulU(oh[e + 1], U - pen \div 1000))
                      ELSE oh] :
              pen \in {computeDisruption(clashEvents, oh, dayStemIdx)} })
  ELSE [penalty |-> 0, oh |-> oh]

\* x / total * 1000 cut to an integer
FloorPermille(x, total) ==
  LET d1 == (x % total) * 10
      d2 == (d1 % total) * 10
      d3 == (d2 % total) * 10
  IN  (x \div total) * 1000 + (d1 \div total) * 100 + (d2 \div total) * 10
        + d3 \div total

\* Math.round(x / total * 1000): the percentage in tenths of a percent
RoundPermille(x, total) ==
  LET d1 == (x % total) * 10
      d2 == (d1 % total) * 10
      d3 == (d2 % total) * 10
  IN  (x \div total) * 1000 + (d1 \div total) * 100 + (d2 \div total) * 10
        + d3 \div total + (IF 2 * (d3 % total) >= total THEN 1 ELSE 0)

\* the percentages of a vector of amounts (total || 1)
Percents(raw) ==
  Only({ [k \in 1..Len(raw) |->
            RoundPermille(raw[k], IF sum = 0 THEN 1 ELSE sum)] :
         sum \in {SumSeq(raw)} })

\* the real value of x / total * 1000 lies exactly between two integers
PermilleTie(x, total) ==
  LET d1 == (x % total) * 10
      d2 == (d1 % total) * 10
      d3 == (d2 % total) * 10
  IN  2 * (d3 % total) = total

\* The values ohPercent can take when the totals are the penalised ones:
\* oh[e] * (1 - penalty) and their sum are rounded doubles, so the quotient
\* oh[e] / ohTotal * 1000 carries a rounding error, and where its real
\* value is a tie Math.round gives the integer above or the one below.
\* (Unpenalised totals at a tie are exact: 5 / 80 * 1000 is 62.5.)
PenalisedPercents(raw) ==
  Only({ { [k \in 1..Len(raw) |-> exact[k] - (IF k \in down THEN 1 ELSE 0)] :
           down \in SUBSET {k \in 1..Len(raw) :
                              PermilleTie(raw[k], SumSeq(raw))} } :
         exact \in {Percents(raw)} })

\* Step 4: the amounts addSipsung receives, as <<stem index, amount>>
SipsungAmounts(sdT, bdT) ==
  Flatten([i \in 1..Len(sdT) |->
             << <<sdT[i].base.si, sdT[i].base.w * sdT[i].of>> >>
               \o [n \in 1..Len(sdT[i].tr) |->
                     << el2si(sdT[i].tr[n].e, CHEONGAN_EUMYANG(sdT[i].base.si)),
                        sdT[i].base.w * sdT[i].tr[n].f >>]],
          Len(sdT))
    \o Flatten([i \in 1..Len(bdT) |->
                  SelectSeq([e \in 1..5 |->
                               << el2si(e - 1, bdT[i].base.yy),
                                  IF bdT[i].base.dist[e] > 0
                                  THEN MulU(bdT[i].base.w * bdT[i].base.dist[e],
                                            bdT[i].of)
                                  ELSE -1 >>],
                            LAMBDA a : a[2] >= 0)
                    \o [n \in 1..Len(bdT[i].tr) |->
                          << el2si(bdT[i].tr[n].e, bdT[i].base.yy),
                             bdT[i].base.w * bdT[i].tr[n].f >>]],
               Len(bdT))

\* sip after Step 4, in TEN_GODS order
WeightedSipsung(sdT, bdT, dayStemIdx) ==
  Only({ [k \in 1..Len(TEN_GODS) |->
            SumSeq([n \in 1..Len(amounts) |->
                      IF /\ amounts[n][2] > 0
                         /\ getTenGod(dayStemIdx, amounts[n][1]) = TEN_GODS[k]
                      THEN amounts[n][2] ELSE 0])] :
         amounts \in {SipsungAmounts(sdT, bdT)} })

\* the shared table where each row a position holds is scaled in place by
\* the position's own factor
BrElAfterScaled(BR_EL, bdT, natalAngles) ==
  [bi \in 0..11 |->
     IF \E i \in 1..Len(bdT) : bdT[i].base.bi = bi
     THEN LET i == CHOOSE j \in 1..Len(bdT) : bdT[j].base.bi = bi
          IN  ElemVec(LAMBDA e : MulU(BR_EL[bi][e + 1], bdT[i].of))
     ELSE BR_EL[bi]]

\* BR_EL after the call: bd[p].dist is a reference to a row of the table,
\* and the call only reads it (of and tr are fields of the fresh bd[p])
BrElAfter(BR_EL, bdT, natalAngles) == BR_EL

\* The return value from the transformed pillars; trace holds the locals
\* the properties speak about: sd and bd as Step 2 leaves them, clashEvents,
\* oh as Step 3 leaves it, sip as Step 4 leaves it, disruptionPenalty, and
\* per position the amount its stem adds to the total of its own element
\* (s.w * s.of, and s.w * t.f of a transform to that element).
ProfileResult(sdT, bdT, events, dayStemIdx) ==
  Only({
    Only({
      Only({
        [out |->
           [oheng |-> [raw |-> dis.oh, percent |-> Percents(dis.oh)],
            sipsung |->
              Only({ [raw |-> sip, percent |-> sipPercent,
                      grouped |-> [g \in 1..Len(TEN_GODS_GROUPED) |->
                                     sipPercent[TEN_GODS_GROUPED[g][1]]
                                       + sipPercent[TEN_GODS_GROUPED[g][2]]]] :
                     sipPercent \in {Percents(sip)} }),
            interactions |-> Interactions(events),
            total |-> IF SumSeq(dis.oh) = 0 THEN 1 ELSE SumSeq(dis.oh)],
         trace |->
           [sd |-> sdT, bd |-> bdT,
            clashEvents |-> ClashEvents(events),
            oh |-> oh,
            disruptionPenalty |-> dis.penalty,
            stemOwn |-> [i \in 1..Len(sdT) |->
                           [p |-> sdT[i].base.p,
                            amount |-> StemAmount(sdT[i], sdT[i].base.el)]]]] :
        sip \in {WeightedSipsung(sdT, bdT, dayStemIdx)} }) :
      dis \in {Disrupted(oh, ClashEvents(events), dayStemIdx)} }) :
    oh \in {WeightedOheng(sdT, bdT)} })

\* computeProfile(natalDiscrete, hasTime, fortunePillars, natalAngles) with
\* the shared table BR_EL: the return value, the trace, and the table and
\* the argument objects as the call leaves them
computeProfile(BR_EL, natalDiscrete, hasTime, fortunePillars, natalAngles) ==
  LET numNatal == Len(natalPositions(hasTime))
  IN  Only({
        Only({
          Only({
            Only({
              [ret |-> r.out, trace |-> r.trace,
               BR_EL |-> BrElAfter(BR_EL, bdT, natalAngles),
               natalDiscrete |-> natalDiscrete,
               fortunePillars |-> fortunePillars,
               natalAngles |-> natalAngles] :
              r \in {ProfileResult(sdT, bdT, events,
                                   natalDiscrete.idxs.day % 10)} }) :
            sdT \in {Transformed(sd, events, "stem")},
            bdT \in {Transformed(bd, events, "branch")} }) :
          events \in {ProfileEvents(sd, bd, numNatal)} }) :
        sd \in {AsSeq(StemData(natalDiscrete, hasTime, fortunePillars))},
        bd \in {AsSeq(BranchData(BR_EL, natalDiscrete, hasTime,
                                 fortunePillars, natalAngles))} })

\* ------------------------------------------------------------------------
\* Fortune time series
\* ------------------------------------------------------------------------

\* the search for the active decade period running from the first entry up
RECURSIVE ActiveDaeunFromFirst(_, _, _)
ActiveDaeunFromFirst(daeunList, koreanAge, i) ==
  IF i = 0 THEN <<>>
  ELSE LET k == Len(daeunList) + 1 - i
       IN  IF koreanAge >= daeunList[k].age THEN <<daeunList[k]>>
           ELSE ActiveDaeunFromFirst(daeunList, koreanAge, i - 1)

\* generateFortuneTimeSeries, the loop for (i = daeunList.length - 1; i >= 0;
\* i--): <<the entry found>>, <<>> for null; i counts from Len(daeunList)
RECURSIVE ActiveDaeun(_, _, _)
ActiveDaeun(daeunList, koreanAge, i) ==
  IF i = 0 THEN <<>>
  ELSE IF koreanAge >= daeunList[i].age THEN <<daeunList[i]>>
  ELSE ActiveDaeun(daeunList, koreanAge, i - 1)

\* the yearly loop from `year` on: acc is [BR_EL, yearly]; of an entry year,
\* age, daeun (<<idx>> or <<>>), saeun (idx) and oheng.percent are kept
RECURSIVE YearlyLoop(_, _, _, _, _, _, _)
YearlyLoop(natalDiscrete, hasTime, daeunList, birthYear, year, endYear, acc) ==
  IF year > endYear THEN acc
  ELSE
  LET koreanAge == year - birthYear + 1
      activeDaeun == ActiveDaeun(daeunList, koreanAge, Len(daeunList))
      saeunIdx == (((REF_YEAR_IDX + (year - REF_YEAR)) % 60) + 60) % 60
      fortunePillars ==
        [daeun |-> IF activeDaeun # <<>> THEN activeDaeun[1].idx ELSE -1,
         saeun |-> saeunIdx, wolun |-> -1]
  IN  Only({
        YearlyLoop(natalDiscrete, hasTime, daeunList, birthYear, year + 1,
                   endYear,
                   [BR_EL |-> p.BR_EL,
                    yearly |-> Append(acc.yearly,
                      [year |-> year, age |-> koreanAge,
                       daeun |-> IF activeDaeun # <<>>
                                 THEN <<activeDaeun[1].idx>> ELSE <<>>,
                       saeun |-> saeunIdx,
                       percent |-> p.ret.oheng.percent])]) :
        p \in {computeProfile(acc.BR_EL, natalDiscrete, hasTime,
                              fortunePillars, <<>>)} })

\* generateFortuneTimeSeries(natalDiscrete, hasTime, daeunData, birthYear,
\* startYear, endYear) with the shared table BR_EL; daeunData is <<>> for
\* none: [BR_EL, natal, yearly, daeunBoundaries]
generateFortuneTimeSeries(BR_EL, natalDiscrete, hasTime, daeunData, birthYear, startYear, endYear) ==
  LET daeunList == IF daeunData = <<>> THEN <<>> ELSE daeunData[1].list
  IN  Only({
        Only({ [BR_EL |-> loop.BR_EL,
                natal |-> natal.ret.oheng.percent,
                yearly |-> loop.yearly,
                daeunBoundaries |->
                  [k \in 1..Len(daeunList) |->
                     [year |-> daeunList[k].calYear,
                      idx |-> daeunList[k].idx]]] :
               loop \in {YearlyLoop(natalDiscrete, hasTime, daeunList,
                                    birthYear, startYear, endYear,
                                    [BR_EL |-> natal.BR_EL,
                                     yearly |-> <<>>])} }) :
        natal \in {computeProfile(BR_EL, natalDiscrete, hasTime,
                                  [daeun |-> -1, saeun |-> -1, wolun |-> -1],
                                  <<>>)} })

\* ------------------------------------------------------------------------
\* FortuneExplorer: slider input and animation frames
\* ------------------------------------------------------------------------

\* A slider value is counted in halves (value 3 is 1.5), a field that can be
\* null is <<>> for null and <<x>> otherwise, _rafId is 0 for null.

\* _updateFortune(val): the view shows `val` and the labels of the nearest
\* entry; nothing happens without yearly data
updateFortune(fe, val) ==
  IF fe.yearlyLen = 0 THEN fe
  ELSE LET floor == Max(0, Min(val \div 2, fe.yearlyLen - 1))
           ceil == Min(floor + 1, fe.yearlyLen - 1)
           t2 == val - 2 * floor
       IN  [fe EXCEPT !.shown = <<val>>,
                      !.nearest = IF t2 < 1 THEN floor ELSE ceil]

\* requestAnimationFrame(callback): a handle no outstanding request has
RequestId(frames) == CHOOSE id \in 1..(Cardinality(frames) + 1) : id \notin frames

\* _onSliderInput requesting a frame on every input
onSliderInputAlwaysRequests(fe, frames, val) ==
  [fe |-> [fe EXCEPT !.slider = val, !.pendingVal = <<val>>,
                     !.rafId = RequestId(frames)],
   frames |-> frames \cup {RequestId(frames)}]

\* the 'input' event of the slider at value val: _onSliderInput() with the
\* browser's outstanding frame requests `frames`
onSliderInput(fe, frames, val) ==
  IF fe.rafId = 0
  THEN [fe |-> [fe EXCEPT !.slider = val, !.pendingVal = <<val>>,
                          !.rafId = RequestId(frames)],
        frames |-> frames \cup {RequestId(frames)}]
  ELSE [fe |-> [fe EXCEPT !.slider = val, !.pendingVal = <<val>>],
        frames |-> frames]

\* the callback handed to requestAnimationFrame
frameCallback(fe) ==
  LET cleared == [fe EXCEPT !.rafId = 0]
  IN  IF cleared.pendingVal # <<>>
      THEN [updateFortune(cleared, cleared.pendingVal[1])
              EXCEPT !.pendingVal = <<>>]
      ELSE cleared

\* render(timeSeriesData, ...) with yearlyLen entries, initIdx the entry of
\* the current year
renderExplorer(fe, yearlyLen, initIdx) ==
  IF yearlyLen = 0 THEN [fe EXCEPT !.yearlyLen = 0]
  ELSE updateFortune([fe EXCEPT !.yearlyLen = yearlyLen,
                                !.slider = 2 * initIdx], 2 * initIdx)

\* new FortuneExplorer(containerId)
FortuneExplorerNew ==
  [slider |-> 0, pendingVal |-> <<>>, rafId |-> 0, yearlyLen |-> 0,
   shown |-> <<>>, nearest |-> 0]

\* ------------------------------------------------------------------------
\* State
\* ------------------------------------------------------------------------
VARIABLES
  TermCache,    \* the process-wide Map of findSolarTerm: key -> Date
  cacheWrites,  \* history: key -> number of TermCache.set calls on it
  last,         \* the last core call on the cache: arguments and outcome
  bm,           \* one BirthMoment instance (<<>> before construction)
  BR_EL,        \* the shared table of branch element ratios
  args,         \* the argument objects a caller of computeProfile holds
  prof          \* the last call of the fortune scorer: arguments and outcome

vars == <<TermCache, cacheWrites, last, bm, BR_EL, args, prof>>

\* ------------------------------------------------------------------------
\* Bounds and inputs
\* ------------------------------------------------------------------------

\* the calendar year callers ask about
BaseYear == 1990

\* a year no Date can hold: every search for it is exhausted
FarYear == 300000

CallYears == {BaseYear}

\* direct findSolarTerm calls: also with a longitude that is not the term's
DirectNames == {"ipchun", "gyeongchip"}

DirectLonSeq == <<315, 345, 135, 285>>

NumDirectLons == 2

DirectLons == {DirectLonSeq[i] : i \in 1..Min(NumDirectLons, Len(DirectLonSeq))}

\* the birth of BaseYear at the clock minute `t` (minutes since REF_DATE)
BirthAtMinute(t) ==
  [year |-> BaseYear, month |-> CivilFromDays(t \div 1440).month,
   day |-> CivilFromDays(t \div 1440).day, hour |-> (t % 1440) \div 60,
   minute |-> t % 60]

\* births at the start-of-spring instant of BaseYear and a minute before it
IpchunBirths ==
  { BirthAtMinute(t - d) :
      t \in {findSolarTerm(<<>>, BaseYear, "ipchun", 315).value},
      d \in {0, 1} }

\* births handed to SajuCalculator.calculate directly
CalcBirths ==
  { [year |-> y, month |-> 2, day |-> 4, hour |-> h, minute |-> 0] :
      y \in CallYears, h \in {10, 23} }
  \cup IpchunBirths
  \cup { [year |-> BaseYear, month |-> 5, day |-> 15, hour |-> 14, minute |-> 30],
         [year |-> FarYear, month |-> 5, day |-> 15, hour |-> 14, minute |-> 30] }

NoErr == createError("", [termName |-> "", year |-> 0])

NoCall ==
  [op |-> "none", year |-> 0, termName |-> "", lon |-> 0, ok |-> TRUE,
   err |-> NoErr, value |-> 0, hit |-> FALSE, samples |-> 0, steps |-> 0,
   failures |-> 0,
   result |-> <<>>]

\* cacheWrites after a call that wrote the keys `wrote`
CountWrites(w, wrote) ==
  [k \in DOMAIN w \cup wrote |->
     (IF k \in DOMAIN w THEN w[k] ELSE 0) + (IF k \in wrote THEN 1 ELSE 0)]

NoProfile == [op |-> "none"]

\* a chart without birth time, overlay pillars or angles
DefaultArgs ==
  [natalDiscrete |-> [idxs |-> [hour |-> 26, day |-> 0, month |-> 25,
                                year |-> 53]],
   hasTime |-> FALSE,
   fortunePillars |-> [daeun |-> -1, saeun |-> -1, wolun |-> -1],
   natalAngles |-> <<>>]

Init ==
  /\ TermCache = <<>>
  /\ cacheWrites = <<>>
  /\ last = NoCall
  /\ bm = <<>>
  /\ BR_EL = BR_EL_Loaded
  /\ args = DefaultArgs
  /\ prof = NoProfile

\* ------------------------------------------------------------------------
\* Operations on the solar-term cache
\* ------------------------------------------------------------------------

\* a direct findSolarTerm(year, termName, targetLongitude) call
CallFindSolarTerm ==
  \E y \in CallYears \cup {FarYear}, n \in DirectNames, lon \in DirectLons :
    \E r \in {findSolarTerm(TermCache, y, n, lon)} :
        /\ TermCache' = r.cache
        /\ cacheWrites' = CountWrites(cacheWrites, r.wrote)
        /\ last' = [op |-> "findSolarTerm", year |-> y, termName |-> n,
                    lon |-> lon, ok |-> r.ok,
                    err |-> IF r.ok THEN NoErr ELSE r.err,
                    value |-> r.value, hit |-> r.hit, samples |-> r.samples,
                    steps |-> r.steps,
                    failures |-> IF r.ok THEN 0 ELSE 1, result |-> <<>>]
        /\ UNCHANGED <<bm, BR_EL, args, prof>>

\* SajuCalculator.calculate(year, month, day, hour, minute)
CallCalculate ==
  \E b \in CalcBirths :
    \E r \in {SajuCalculate(TermCache, b.year, b.month, b.day, b.hour,
                             b.minute)} :
        /\ TermCache' = r.cache
        /\ cacheWrites' = CountWrites(cacheWrites, r.wrote)
        /\ last' = [op |-> "calculate", year |-> b.year, termName |-> "",
                    lon |-> 0, ok |-> r.ok, err |-> r.err, value |-> 0,
                    hit |-> FALSE, samples |-> 0, steps |-> 0,
                    failures |-> r.failures,
                    result |-> r.result]
        /\ UNCHANGED <<bm, BR_EL, args, prof>>

\* WolunCalculator.calculate(result, targetYear)
CallWolun ==
  \E ty \in CallYears \cup {FarYear} :
    \E r \in {WolunCalculate(TermCache, ty)} :
        /\ TermCache' = r.cache
        /\ cacheWrites' = CountWrites(cacheWrites, r.wrote)
        /\ last' = [op |-> "wolun", year |-> ty, termName |-> "", lon |-> 0,
                    ok |-> TRUE, err |-> NoErr, value |-> 0, hit |-> FALSE,
                    samples |-> 0, steps |-> 0, failures |-> r.failures,
                    result |-> r.list]
        /\ UNCHANGED <<bm, BR_EL, args, prof>>

Next == CallFindSolarTerm \/ CallCalculate \/ CallWolun

Spec == Init /\ [][Next]_vars

\* ------------------------------------------------------------------------
\* Operations on a BirthMoment
\* ------------------------------------------------------------------------

BMClockHours == {-1, 0, 10, 12, 23}

BMClockMinutes == {-1, 0, 30}

BMDates == { [year |-> y, month |-> md[1], day |-> md[2]] :
               y \in CallYears \cup {FarYear}, md \in {<<2, 4>>, <<5, 15>>} }

\* new BirthMoment(year, month, day, hour, minute, gender, longitude)
BMConstruct ==
  \E d \in BMDates, h \in BMClockHours, mi \in BMClockMinutes :
    /\ bm' = <<BirthMomentNew(d.year, d.month, d.day, h, mi, "m")>>
    /\ UNCHANGED <<TermCache, cacheWrites, last, BR_EL, args, prof>>

\* bm.computeDiscrete()
BMComputeDiscrete ==
  /\ bm # <<>>
  /\ \E r \in {computeDiscrete(TermCache, bm[1])} :
        /\ bm' = <<r.bm>>
        /\ TermCache' = r.cache
        /\ cacheWrites' = CountWrites(cacheWrites, r.wrote)
        /\ last' = [op |-> "computeDiscrete", year |-> bm[1].year,
                    termName |-> "", lon |-> 0, ok |-> r.ok, err |-> r.err,
                    value |-> 0, hit |-> r.hit, samples |-> 0, steps |-> 0,
                    failures |-> IF r.ok THEN 0 ELSE 1,
                    result |-> r.bm.discrete]
        /\ UNCHANGED <<BR_EL, args, prof>>

NextBM == BMConstruct \/ BMComputeDiscrete

SpecBM == Init /\ [][NextBM]_vars

\* ------------------------------------------------------------------------
\* Operations of the fortune scorer
\* ------------------------------------------------------------------------

\* the natal charts and overlay pillars callers hand to computeProfile
HourIdxs == {26, 6}

DayIdxs == {0, 23}

MonthIdxs == {25, 4, 6}

YearIdxs == {53, 0, 25}

DaeunIdxs == {-1, 56, 25, 6}

SaeunIdxs == {-1, 25}

WolunIdxs == {-1, 11}

AngleMaps == {<<>>, <<[hour |-> 90, day |-> -1, month |-> 120, year |-> 0]>>}

\* the caller builds a natal chart (computeDiscrete, computeContinuous)
SetNatalChart ==
  \E h \in HourIdxs, d \in DayIdxs, m \in MonthIdxs, y \in YearIdxs,
     t \in BOOLEAN, a \in AngleMaps :
    /\ args' = [args EXCEPT
                  !.natalDiscrete = [idxs |-> [hour |-> h, day |-> d,
                                               month |-> m, year |-> y]],
                  !.hasTime = t,
                  !.natalAngles = a]
    /\ prof' = NoProfile
    /\ UNCHANGED <<TermCache, cacheWrites, last, bm, BR_EL>>

\* the caller picks the overlay pillars in force
SetFortunePillars ==
  \E d \in DaeunIdxs, s \in SaeunIdxs, w \in WolunIdxs :
    /\ args' = [args EXCEPT
                  !.fortunePillars = [daeun |-> d, saeun |-> s, wolun |-> w]]
    /\ prof' = NoProfile
    /\ UNCHANGED <<TermCache, cacheWrites, last, bm, BR_EL>>

\* computeProfile(natalDiscrete, hasTime, fortunePillars, natalAngles) on the
\* caller's objects; prof records the call, and whether the call before it
\* had equal arguments (repeat) together with what that call returned
CallComputeProfile ==
  \E r \in {computeProfile(BR_EL, args.natalDiscrete, args.hasTime,
                           args.fortunePillars, args.natalAngles)} :
    /\ BR_EL' = r.BR_EL
    /\ args' = [natalDiscrete |-> r.natalDiscrete, hasTime |-> args.hasTime,
                fortunePillars |-> r.fortunePillars,
                natalAngles |-> r.natalAngles]
    /\ prof' = [op |-> "computeProfile", args |-> args, ret |-> r.ret,
                trace |-> r.trace,
                repeat |-> prof.op = "computeProfile" /\ prof.args = args,
                before |-> IF prof.op = "computeProfile" /\ prof.args = args
                           THEN prof.ret ELSE r.ret]
    /\ UNCHANGED <<TermCache, cacheWrites, last, bm>>

NextProfile == SetNatalChart \/ SetFortunePillars \/ CallComputeProfile

SpecProfile == Init /\ [][NextProfile]_vars

\* ------------------------------------------------------------------------
\* _computeDisruption on its own
\* ------------------------------------------------------------------------

\* the longest synthetic clash list
MaxClashes == 4

\* a natal clash of mok and geum, a natal clash of to and to, an overlay
\* clash of su and hwa on the day pillar
ClashKinds ==
  { [elA |-> 0, elB |-> 3, weight |-> U],
    [elA |-> 2, elB |-> 2, weight |-> U],
    [elA |-> 4, elB |-> 1,
     weight |-> MulU(FORTUNE_INTERACTION_W("day"), FORTUNE_DAMPEN)] }

ClashLists == UNION { [1..n -> ClashKinds] : n \in 0..MaxClashes }

\* element totals: even, without su or hwa, and all zero
OhSamples ==
  { <<20 * U, 20 * U, 20 * U, 20 * U, 20 * U>>,
    <<60 * U, 0, 20 * U, 20 * U, 0>>,
    <<0, 0, 0, 0, 0>> }

\* charts whose clash events and Step 3 totals computeProfile passes on
ClashCharts ==
  { [natalDiscrete |-> [idxs |-> [hour |-> 6, day |-> 0, month |-> 6,
                                  year |-> 0]],
     hasTime |-> TRUE,
     fortunePillars |-> [daeun |-> d, saeun |-> -1, wolun |-> -1],
     natalAngles |-> <<>>] : d \in {-1, 6} }

DisruptionInputs ==
  { [clashEvents |-> c, oh |-> o, dayStemIdx |-> s] :
      c \in ClashLists, o \in OhSamples, s \in {0, 6} }
  \cup { Only({ [clashEvents |-> t.clashEvents, oh |-> t.oh,
                  dayStemIdx |-> c.natalDiscrete.idxs.day % 10] :
                 t \in {computeProfile(BR_EL_Loaded, c.natalDiscrete,
                                       c.hasTime, c.fortunePillars,
                                       c.natalAngles).trace} }) :
           c \in ClashCharts }

\* the arguments of a _computeDisruption call are at hand
InitDisruption ==
  /\ TermCache = <<>>
  /\ cacheWrites = <<>>
  /\ last = NoCall
  /\ bm = <<>>
  /\ BR_EL = BR_EL_Loaded
  /\ args = DefaultArgs
  /\ \E i \in DisruptionInputs :
       prof = [op |-> "clashes", clashEvents |-> i.clashEvents, oh |-> i.oh,
               dayStemIdx |-> i.dayStemIdx, raw |-> 0, penalty |-> 0]

\* _computeDisruption(clashEvents, oh, dayStemIdx)
CallComputeDisruption ==
  /\ prof.op = "clashes"
  /\ prof' = [prof EXCEPT
                !.op = "computeDisruption",
                !.raw = RawDisruption(prof.clashEvents, prof.oh,
                                      prof.dayStemIdx),
                !.penalty = computeDisruption(prof.clashEvents, prof.oh,
                                              prof.dayStemIdx)]
  /\ UNCHANGED <<TermCache, cacheWrites, last, bm, BR_EL, args>>

NextDisruption == CallComputeDisruption

SpecDisruption == InitDisruption /\ [][NextDisruption]_vars

\* ------------------------------------------------------------------------
\* Day and hour pillar of SajuCalculator.calculate on its own
\* ------------------------------------------------------------------------

\* the birth years the form accepts
MinBirthYear == 1900

MaxBirthYear == 2100

BirthYears == {MinBirthYear, 1987, 2000, 2024, MaxBirthYear}

IsLeapYear(y) == (y % 4 = 0 /\ y % 100 # 0) \/ y % 400 = 0

DaysInMonth(y, m) ==
  IF m = 2 THEN (IF IsLeapYear(y) THEN 29 ELSE 28)
  ELSE IF m \in {4, 6, 9, 11} THEN 30 ELSE 31

BirthDates ==
  { [year |-> y, month |-> m, day |-> d] :
      y \in BirthYears, m \in 1..12, d \in 1..31 }

\* clock times: each side of the branch boundaries at 01:00 and 23:00,
\* midnight, noon and the last minute of the day
BirthClocks ==
  { [hour |-> 0, minute |-> 0], [hour |-> 0, minute |-> 59],
    [hour |-> 1, minute |-> 0], [hour |-> 12, minute |-> 0],
    [hour |-> 22, minute |-> 59], [hour |-> 23, minute |-> 0],
    [hour |-> 23, minute |-> 59] }

\* minutes the local clock of a date may run ahead of the clock of REF_DATE:
\* an older zone offset of half an hour less, none, summer time
LocalShifts == {-30, 0, 60}

\* a birth date, a clock time and the zone offset of that date are at hand
InitDay ==
  /\ TermCache = <<>>
  /\ cacheWrites = <<>>
  /\ last = NoCall
  /\ bm = <<>>
  /\ BR_EL = BR_EL_Loaded
  /\ prof = NoProfile
  /\ \E b \in BirthDates, c \in BirthClocks, s \in LocalShifts :
       /\ b.day <= DaysInMonth(b.year, b.month)
       /\ args = [op |-> "birth", year |-> b.year, month |-> b.month,
                  day |-> b.day, hour |-> c.hour, minute |-> c.minute,
                  shift |-> s]

\* the day and hour pillar steps of calculate(year, month, day, hour, minute)
CallDayPillar ==
  /\ prof.op = "none"
  /\ args.op = "birth"
  /\ \E d \in {dayPillar(args.year, args.month, args.day, args.hour,
                          args.shift)} :
       prof' = [op |-> "dayPillar", dayIdx |-> d,
                hour |-> hourPillar(d, args.hour, args.minute)]
  /\ UNCHANGED <<TermCache, cacheWrites, last, bm, BR_EL, args>>

NextDay == CallDayPillar

SpecDay == InitDay /\ [][NextDay]_vars

\* ------------------------------------------------------------------------
\* DaeunCalculator.calculate on calculate results
\* ------------------------------------------------------------------------

\* minutes from the start of the governing term to the birth, and the
\* length of the term
TermLength == 43800

BirthOffsets == {0, 1, 9000, 21900, TermLength - 1}

Genders == {"m", "f", ""}

\* results as calculate builds them: the month index belongs to the year
\* index and a month number, the birth lies in [curTermDt, nextTermDt)
DaeunResults ==
  { [idxs |-> [hour |-> 0, day |-> di,
               month |-> monthPillar(yi, mn).idx, year |-> yi],
     birthKST |-> o, curTermDt |-> 0, nextTermDt |-> TermLength,
     input |-> [year |-> BaseYear, month |-> bm0]] :
      yi \in 0..59, mn \in 1..12, di \in {0, 35}, o \in BirthOffsets,
      bm0 \in {1, 12} }

\* a calculate result and a gender are at hand
InitDaeun ==
  /\ TermCache = <<>>
  /\ cacheWrites = <<>>
  /\ last = NoCall
  /\ bm = <<>>
  /\ BR_EL = BR_EL_Loaded
  /\ prof = NoProfile
  /\ \E r \in DaeunResults, g \in Genders :
       args = [op |-> "result", result |-> r, gender |-> g]

\* DaeunCalculator.calculate(result, gender)
CallDaeun ==
  /\ prof.op = "none"
  /\ args.op = "result"
  /\ \E d \in {DaeunCalculate(args.result, args.gender)} :
       prof' = [op |-> "daeun", ret |-> [d EXCEPT !.list = AsSeq(d.list)]]
  /\ UNCHANGED <<TermCache, cacheWrites, last, bm, BR_EL, args>>

NextDaeun == CallDaeun

SpecDaeun == InitDaeun /\ [][NextDaeun]_vars

\* ------------------------------------------------------------------------
\* The functions of an angle
\* ------------------------------------------------------------------------

\* angles in centi-degrees: a grid from -30 to 390 degrees and the branch
\* centres
AngleStep == 50

Angles ==
  { k * AngleStep : k \in (0 - (3000 \div AngleStep))..(39000 \div AngleStep) }
  \cup { 3000 * k : k \in (0 - 1)..13 }

\* an angle is at hand
InitAngle ==
  /\ TermCache = <<>>
  /\ cacheWrites = <<>>
  /\ last = NoCall
  /\ bm = <<>>
  /\ BR_EL = BR_EL_Loaded
  /\ prof = NoProfile
  /\ \E a \in Angles : args = [op |-> "angle", theta |-> a]

\* ohengStrengthAtAngle(theta) at a branch centre
CallOhengStrengthAtAngle ==
  /\ prof.op = "none"
  /\ args.op = "angle"
  /\ args.theta \in 0..35999
  /\ args.theta % 3000 = 0
  /\ prof' = [op |-> "ohengStrengthAtAngle",
              ret |-> ohengStrengthAtAngle(args.theta \div 100)]
  /\ UNCHANGED <<TermCache, cacheWrites, last, bm, BR_EL, args>>

\* allBranchInfluences(theta)
CallAllBranchInfluences ==
  /\ prof.op = "none"
  /\ args.op = "angle"
  /\ prof' = [op |-> "allBranchInfluences",
              ret |-> allBranchInfluences(args.theta)]
  /\ UNCHANGED <<TermCache, cacheWrites, last, bm, BR_EL, args>>

\* getBlendedBranchProfile(angle)
CallGetBlendedBranchProfile ==
  /\ prof.op = "none"
  /\ args.op = "angle"
  /\ prof' = [op |-> "getBlendedBranchProfile",
              ret |-> getBlendedBranchProfile(args.theta)]
  /\ UNCHANGED <<TermCache, cacheWrites, last, bm, BR_EL, args>>

NextAngle ==
  \/ CallOhengStrengthAtAngle
  \/ CallAllBranchInfluences
  \/ CallGetBlendedBranchProfile

SpecAngle == InitAngle /\ [][NextAngle]_vars

\* ------------------------------------------------------------------------
\* The date to angle converters
\* ------------------------------------------------------------------------

\* the start of a term (minutes since REF_DATE), and spans to the next
\* start: a month of terms of even and of odd length, a year, none, and a
\* next start that lies before the start
TermStart == 14400

TermSpans == {43200, TermLength + 1, 525960, 0, 0 - 60}

\* births: before the start, at it, at the midpoint, a minute after the
\* midpoint, a minute before the next start, and after it
BirthsInSpan(span) ==
  {0 - 10, 0, span \div 2, span \div 2 + 1, span - 1, span + 5}

\* a birth, the starts of its term and of the next, and a branch are at
\* hand
InitDateAngle ==
  /\ TermCache = <<>>
  /\ cacheWrites = <<>>
  /\ last = NoCall
  /\ bm = <<>>
  /\ BR_EL = BR_EL_Loaded
  /\ prof = NoProfile
  /\ \E span \in TermSpans, bi \in 0..12 :
       \E o \in BirthsInSpan(span) :
         args = [op |-> "term", birth |-> TermStart + o, cur |-> TermStart,
                 next |-> TermStart + span, branchIdx |-> bi]

\* dateToMonthAngle(birthKST, curTermDate, nextTermDate, monthBranchIdx)
CallDateToMonthAngle ==
  /\ prof.op = "none"
  /\ args.op = "term"
  /\ prof' = [op |-> "dateToMonthAngle",
              ret |-> dateToMonthAngle(args.birth, args.cur, args.next,
                                       args.branchIdx)]
  /\ UNCHANGED <<TermCache, cacheWrites, last, bm, BR_EL, args>>

\* dateToYearAngle(birthKST, ipchunThisDate, ipchunNextDate, yearBranchIdx)
CallDateToYearAngle ==
  /\ prof.op = "none"
  /\ args.op = "term"
  /\ prof' = [op |-> "dateToYearAngle",
              ret |-> dateToYearAngle(args.birth, args.cur, args.next,
                                      args.branchIdx)]
  /\ UNCHANGED <<TermCache, cacheWrites, last, bm, BR_EL, args>>

NextDateAngle == CallDateToMonthAngle \/ CallDateToYearAngle

SpecDateAngle == InitDateAngle /\ [][NextDateAngle]_vars

\* ------------------------------------------------------------------------
\* Operations on one BirthMoment and its lazy caches
\* ------------------------------------------------------------------------

\* the most often a calculation is counted
MaxRuns == 2

Calculations ==
  {"discrete", "continuous", "matrix", "oheng", "daeun", "saeun", "wolun"}

\* the fields a BirthMoment caches a calculation in
CacheFields == {"discrete", "continuous", "matrix", "oheng", "daeun", "saeun"}

LazyBirths ==
  { BirthMomentNew(y, 5, 15, 10, 30, g) :
      y \in {BaseYear, FarYear}, g \in {"m", "f"} }

SaeunRanges ==
  { <<BaseYear, BaseYear + 2>>, <<BaseYear + 1, BaseYear + 1>>,
    <<REF_YEAR + 59, REF_YEAR + 61>>, <<BaseYear + 1, BaseYear>> }

WolunYears == {BaseYear}

\* the state after new BirthMoment(...): nothing computed, nothing called
InitLazy ==
  /\ TermCache = <<>>
  /\ cacheWrites = <<>>
  /\ last = NoCall
  /\ \E b \in LazyBirths : bm = <<b>>
  /\ BR_EL = BR_EL_Loaded
  /\ args = DefaultArgs
  /\ prof = [op |-> "methods",
             call |-> [op |-> "new", s |-> 0, e |-> 0, ok |-> TRUE,
                       ran |-> {}, value |-> <<>>],
             runs |-> [c \in Calculations |-> 0],
             replaced |-> {}]

\* the method call `op` (with arguments s, e) that came back as r
MethodCalled(op, s, e, r) ==
  /\ \A c \in r.ran : prof.runs[c] < MaxRuns
  /\ bm' = <<r.bm>>
  /\ TermCache' = r.cache
  /\ cacheWrites' = CountWrites(cacheWrites, r.wrote)
  /\ prof' = [op |-> "methods",
              call |-> [op |-> op, s |-> s, e |-> e, ok |-> r.ok,
                        ran |-> r.ran, value |-> r.value],
              runs |-> [c \in Calculations |->
                          prof.runs[c] + (IF c \in r.ran THEN 1 ELSE 0)],
              replaced |-> prof.replaced \cup
                           {c \in r.ran \cap CacheFields : bm[1][c] # <<>>}]
  /\ UNCHANGED <<last, BR_EL, args>>

CallComputeDiscrete ==
  \E r \in {computeDiscreteCall(TermCache, bm[1])} :
    MethodCalled("computeDiscrete", 0, 0, r)

CallComputeContinuous ==
  \E r \in {computeContinuous(TermCache, bm[1])} :
    MethodCalled("computeContinuous", 0, 0, r)

CallComputeMatrix ==
  \E r \in {computeMatrix(TermCache, bm[1])} :
    MethodCalled("computeMatrix", 0, 0, r)

CallComputeOheng ==
  \E r \in {computeOheng(TermCache, bm[1])} :
    MethodCalled("computeOheng", 0, 0, r)

CallComputeDaeun ==
  \E r \in {computeDaeun(TermCache, bm[1])} :
    MethodCalled("computeDaeun", 0, 0, r)

CallComputeSaeun ==
  \E range \in SaeunRanges :
    \E r \in {computeSaeun(TermCache, bm[1], range[1], range[2])} :
      MethodCalled("computeSaeun", range[1], range[2], r)

CallComputeWolun ==
  \E y \in WolunYears :
    \E r \in {computeWolun(TermCache, bm[1], y)} :
      MethodCalled("computeWolun", y, 0, r)

NextLazy ==
  \/ CallComputeDiscrete
  \/ CallComputeContinuous
  \/ CallComputeMatrix
  \/ CallComputeOheng
  \/ CallComputeDaeun
  \/ CallComputeSaeun
  \/ CallComputeWolun

SpecLazy == InitLazy /\ [][NextLazy]_vars

\* ------------------------------------------------------------------------
\* Operations of the month pillar over one year of births
\* ------------------------------------------------------------------------

\* the birth at the clock minute `t` (minutes since REF_DATE)
BirthAt(t) ==
  Only({ [year |-> c.year, month |-> c.month, day |-> c.day,
          hour |-> (t % 1440) \div 60, minute |-> t % 60] :
         c \in {CivilFromDays(t \div 1440)} })

\* the 13 monthly term boundaries of the sexagenary year BaseYear
BaseYearBoundaries == ResolveTerms(<<>>, BoundaryReqs(BaseYear), 1, <<>>).dts

\* births of the calendar year BaseYear on three days of every month, and
\* births at every monthly term boundary and one minute before it
MonthBirths ==
  { [year |-> BaseYear, month |-> m, day |-> d, hour |-> 10, minute |-> 0] :
      m \in 1..12, d \in {1, 15, 28} }
  \cup Only({ { BirthAt(dts[k] - d) : k \in 1..13, d \in {0, 1} } :
              dts \in {BaseYearBoundaries} })

InitMonth ==
  /\ TermCache = <<>>
  /\ cacheWrites = <<>>
  /\ last = NoCall
  /\ bm = <<>>
  /\ BR_EL = BR_EL_Loaded
  /\ prof = NoProfile
  /\ \E b \in MonthBirths : args = [op |-> "birth", birth |-> b]

\* SajuCalculator.calculate(year, month, day, hour, minute) for the birth
CallCalculateBirth ==
  \E r \in {SajuCalculate(TermCache, args.birth.year, args.birth.month,
                          args.birth.day, args.birth.hour,
                          args.birth.minute)} :
    /\ TermCache' = r.cache
    /\ cacheWrites' = CountWrites(cacheWrites, r.wrote)
    /\ last' = [op |-> "calculate", year |-> args.birth.year,
                termName |-> "", lon |-> 0, ok |-> r.ok, err |-> r.err,
                value |-> 0, hit |-> FALSE, samples |-> 0, steps |-> 0,
                failures |-> r.failures, result |-> r.result]
    /\ UNCHANGED <<bm, BR_EL, args, prof>>

NextMonth == CallCalculateBirth

SpecMonth == InitMonth /\ [][NextMonth]_vars

\* ------------------------------------------------------------------------
\* Operations of the two core callers of findSolarTerm
\* ------------------------------------------------------------------------

\* three consecutive years and a year no term is found for
CoreYears == {BaseYear, BaseYear + 1, BaseYear + 2, FarYear}

\* births before and after start-of-spring in each of these years
CoreBirths ==
  { [year |-> y, month |-> m, day |-> 15, hour |-> 10, minute |-> 0] :
      y \in CoreYears, m \in {1, 5} }

\* SajuCalculator.calculate(year, month, day, hour, minute)
CoreCalculate ==
  \E b \in CoreBirths :
    \E r \in {SajuCalculate(TermCache, b.year, b.month, b.day, b.hour,
                             b.minute)} :
        /\ TermCache' = r.cache
        /\ cacheWrites' = CountWrites(cacheWrites, r.wrote)
        /\ last' = [op |-> "calculate", year |-> b.year, termName |-> "",
                    lon |-> 0, ok |-> r.ok, err |-> r.err, value |-> 0,
                    hit |-> FALSE, samples |-> 0, steps |-> 0,
                    failures |-> r.failures,
                    result |-> r.result]
        /\ UNCHANGED <<bm, BR_EL, args, prof>>

\* WolunCalculator.calculate(result, targetYear)
CoreWolun ==
  \E ty \in CoreYears :
    \E r \in {WolunCalculate(TermCache, ty)} :
        /\ TermCache' = r.cache
        /\ cacheWrites' = CountWrites(cacheWrites, r.wrote)
        /\ last' = [op |-> "wolun", year |-> ty, termName |-> "", lon |-> 0,
                    ok |-> TRUE, err |-> NoErr, value |-> 0, hit |-> FALSE,
                    samples |-> 0, steps |-> 0, failures |-> r.failures,
                    result |-> r.list]
        /\ UNCHANGED <<bm, BR_EL, args, prof>>

NextCore == CoreCalculate \/ CoreWolun

\* the longitude both callers pass with a term name
TermLongitude(termName) ==
  TermDefs[CHOOSE k \in 1..12 : TermDefs[k].name = termName].lon

\* what a search without cache returns for every (year, termName) the two
\* callers can ask for, with the longitude they pass
UncachedSearches ==
  [key \in { CacheKey(y, TermDefs[k].name) :
               y \in ((BaseYear - 1)..(BaseYear + 3)) \cup {FarYear, FarYear + 1},
               k \in 1..12 } |->
     Only({ [found |-> s.found, value |-> s.value] :
            s \in {TermSearch(key[1], key[2], TermLongitude(key[2]))} })]

\* args holds the uncached searches to compare the calls with
InitCore ==
  /\ TermCache = <<>>
  /\ cacheWrites = <<>>
  /\ last = NoCall
  /\ bm = <<>>
  /\ BR_EL = BR_EL_Loaded
  /\ prof = NoProfile
  /\ args = [op |-> "uncached", search |-> UncachedSearches]

SpecCore == InitCore /\ [][NextCore]_vars

\* ------------------------------------------------------------------------
\* Operations of the fortune time series
\* ------------------------------------------------------------------------

\* calculate results of births of BaseYear at several distances from the
\* term boundaries (so that the first period starts at ages 1 to 11)
SeriesResults ==
  { [idxs |-> [hour |-> 0, day |-> 0,
               month |-> monthPillar(SexagenaryIdx, 4).idx,
               year |-> SexagenaryIdx],
     birthKST |-> o, curTermDt |-> 0, nextTermDt |-> TermLength,
     input |-> [year |-> BaseYear, month |-> bm0]] :
      SexagenaryIdx \in {yearPillar(BaseYear)}, o \in BirthOffsets,
      bm0 \in {1, 12} }

\* the first year of a series, counted from the year of birth
SeriesOffsets == {-1, 0, 4, 9, 10, 11, 60, 115, 125}

\* the last year of a series, counted from its first
SeriesSpans == {0, 2}

\* the caller holds a chart, its decade luck (or none) and a range of years
InitSeries ==
  /\ TermCache = <<>>
  /\ cacheWrites = <<>>
  /\ last = NoCall
  /\ bm = <<>>
  /\ BR_EL = BR_EL_Loaded
  /\ prof = NoProfile
  /\ \E r \in SeriesResults, g \in {"m", "f", "none"},
        o \in SeriesOffsets, n \in SeriesSpans :
       args = [op |-> "series",
               natalDiscrete |-> [idxs |-> r.idxs],
               hasTime |-> TRUE,
               daeunData |-> IF g = "none" THEN <<>>
                             ELSE Only({ << [d EXCEPT !.list = AsSeq(d.list)] >> :
                                         d \in {DaeunCalculate(r, g)} }),
               birthYear |-> r.input.year,
               startYear |-> r.input.year + o,
               endYear |-> r.input.year + o + n]

\* generateFortuneTimeSeries(natalDiscrete, hasTime, daeunData, birthYear,
\* startYear, endYear)
CallGenerateFortuneTimeSeries ==
  /\ args.op = "series"
  /\ \E r \in {generateFortuneTimeSeries(BR_EL, args.natalDiscrete,
                 args.hasTime, args.daeunData, args.birthYear,
                 args.startYear, args.endYear)} :
       /\ BR_EL' = r.BR_EL
       /\ prof' = [op |-> "series", natal |-> r.natal, yearly |-> r.yearly,
                   daeunBoundaries |-> r.daeunBoundaries]
  /\ UNCHANGED <<TermCache, cacheWrites, last, bm, args>>

NextSeries == CallGenerateFortuneTimeSeries

SpecSeries == InitSeries /\ [][NextSeries]_vars

\* ------------------------------------------------------------------------
\* Operations on the FortuneExplorer slider
\* ------------------------------------------------------------------------

\* the entries of the yearly series on display
YearlyLen == 3

SliderValues == 0..(2 * (YearlyLen - 1))

\* inputs between two frames are counted up to this number
MaxMerged == 2

\* the explorer after its first render; the browser holds no frame request
InitExplorer ==
  /\ TermCache = <<>>
  /\ cacheWrites = <<>>
  /\ last = NoCall
  /\ bm = <<>>
  /\ BR_EL = BR_EL_Loaded
  /\ \E initIdx \in 0..(YearlyLen - 1) :
       args = renderExplorer(FortuneExplorerNew, YearlyLen, initIdx)
  /\ prof = [op |-> "browser", frames |-> {}, event |-> "render",
             lastInput |-> <<>>, applied |-> <<>>, inputs |-> 0,
             merged |-> 0]

\* the user moves the slider: the 'input' event
SliderInput ==
  \E val \in SliderValues :
    \E r \in {onSliderInput(args, prof.frames, val)} :
      /\ args' = r.fe
      /\ prof' = [prof EXCEPT !.frames = r.frames, !.event = "input",
                              !.lastInput = <<val>>,
                              !.inputs = Min(prof.inputs + 1, MaxMerged)]
      /\ UNCHANGED <<TermCache, cacheWrites, last, bm, BR_EL>>

\* the browser runs the callback of an outstanding frame request
FrameCallback ==
  \E id \in prof.frames :
    /\ args' = frameCallback(args)
    /\ prof' = [prof EXCEPT !.frames = prof.frames \ {id},
                            !.event = "frame",
                            !.applied = args.pendingVal,
                            !.merged = prof.inputs,
                            !.inputs = 0]
    /\ UNCHANGED <<TermCache, cacheWrites, last, bm, BR_EL>>

\* the page renders a new series into the explorer
RenderAgain ==
  \E initIdx \in 0..(YearlyLen - 1) :
    /\ args' = renderExplorer(args, YearlyLen, initIdx)
    /\ prof' = [prof EXCEPT !.event = "render"]
    /\ UNCHANGED <<TermCache, cacheWrites, last, bm, BR_EL>>

NextExplorer == SliderInput \/ FrameCallback \/ RenderAgain

SpecExplorer == InitExplorer /\ [][NextExplorer]_vars

\* the browser runs every requested frame callback in the end
SpecExplorerLive == SpecExplorer /\ WF_vars(FrameCallback)

\* ------------------------------------------------------------------------
\* Operations of the longitude correction
\* ------------------------------------------------------------------------

\* A longitude is counted in hundredths of a degree (12698 is 126.98), a
\* number of minutes that need not be whole in hundredths of a minute.

\* longitudeCorrection(longitude, meridian = 135), in hundredths of a minute
longitudeCorrection(longitude) == (longitude - 135 * 100) * 4

\* new Date(y, m, 0).getDate(): day 0 of the month after month m (months of
\* Date count from 0) is the last day of month m
LastDayOfMonth(y, m) ==
  IF m = 2 THEN (IF (y % 4 = 0 /\ y % 100 # 0) \/ y % 400 = 0 THEN 29 ELSE 28)
  ELSE IF m \in {4, 6, 9, 11} THEN 30 ELSE 31

\* Math.round of x hundredths
RoundHundredths(x) == (x + 50) \div 100

\* the date part of applyLongitudeCorrection: total is the corrected minute
\* of the day in hundredths
CorrectedDate(year, month, day, total) ==
  IF total < 0
  THEN IF day - 1 < 1
       THEN LET adjMonth == IF month - 1 < 1 THEN 12 ELSE month - 1
                adjYear == IF month - 1 < 1 THEN year - 1 ELSE year
            IN  [year |-> adjYear, month |-> adjMonth,
                 day |-> LastDayOfMonth(adjYear, adjMonth),
                 minutes |-> total + 24 * 60 * 100]
       ELSE [year |-> year, month |-> month, day |-> day - 1,
             minutes |-> total + 24 * 60 * 100]
  ELSE IF total >= 24 * 60 * 100
  THEN IF day + 1 > LastDayOfMonth(year, month)
       THEN [year |-> IF month + 1 > 12 THEN year + 1 ELSE year,
             month |-> IF month + 1 > 12 THEN 1 ELSE month + 1,
             day |-> 1, minutes |-> total - 24 * 60 * 100]
       ELSE [year |-> year, month |-> month, day |-> day + 1,
             minutes |-> total - 24 * 60 * 100]
  ELSE [year |-> year, month |-> month, day |-> day, minutes |-> total]

\* applyLongitudeCorrection(year, month, day, hour, minute, longitude)
applyLongitudeCorrection(year, month, day, hour, minute, longitude) ==
  LET correction == longitudeCorrection(longitude)
      adj == CorrectedDate(year, month, day,
                           (hour * 60 + minute) * 100 + correction)
  IN  [year |-> adj.year, month |-> adj.month, day |-> adj.day,
       hour |-> adj.minutes \div (60 * 100),
       minute |-> RoundHundredths(adj.minutes % (60 * 100)),
       correctionMinutes |-> RoundHundredths(correction)]

\* SingleChart.analyze: the date and time handed to BirthMoment
analyzeMoment(b, hasTime) ==
  IF hasTime /\ b.longitude # 127 * 100
  THEN LET corrected == applyLongitudeCorrection(b.year, b.month, b.day,
                            b.hour, b.minute, b.longitude)
       IN  [year |-> corrected.year, month |-> corrected.month,
            day |-> corrected.day, hour |-> corrected.hour,
            minute |-> corrected.minute, correctionInfo |-> <<corrected>>]
  ELSE [year |-> b.year, month |-> b.month, day |-> b.day, hour |-> b.hour,
        minute |-> b.minute, correctionInfo |-> <<>>]

\* years with and without a leap day, one of them a century
CorrectionYears == {MinBirthYear, 1987, 2000}

\* first and last days of months and years, both ends of February
CorrectionDates ==
  { d \in [year : CorrectionYears, month : {1, 2, 3, 4, 12},
           day : {1, 15, 28, 29, 30, 31}] :
      d.day <= DaysInMonth(d.year, d.month) }

CorrectionClocks == [hour : {0, 10, 23}, minute : {0, 32, 59}]

\* both ends of the range, the meridians 0 and 135, the default 127.00,
\* Seoul 126.98, Tokyo 139.69, New York -74.01
CorrectionLongitudes ==
  {-180 * 100, -7401, 0, 12698, 127 * 100, 135 * 100, 13969, 180 * 100}

CorrectionInputs ==
  { [year |-> d.year, month |-> d.month, day |-> d.day, hour |-> c.hour,
     minute |-> c.minute, longitude |-> l] :
      d \in CorrectionDates, c \in CorrectionClocks,
      l \in CorrectionLongitudes }

InitCorrection ==
  /\ TermCache = <<>>
  /\ cacheWrites = <<>>
  /\ last = NoCall
  /\ bm = <<>>
  /\ BR_EL = BR_EL_Loaded
  /\ \E b \in CorrectionInputs : args = [op |-> "birth", birth |-> b]
  /\ prof = [op |-> "none", out |-> <<>>]

\* applyLongitudeCorrection called with the birth data
CallApplyLongitudeCorrection ==
  /\ prof.op = "none"
  /\ prof' = [op |-> "applyLongitudeCorrection",
              out |-> applyLongitudeCorrection(args.birth.year,
                        args.birth.month, args.birth.day, args.birth.hour,
                        args.birth.minute, args.birth.longitude)]
  /\ UNCHANGED <<TermCache, cacheWrites, last, bm, BR_EL, args>>

\* SingleChart.analyze with a known birth time
CallAnalyze ==
  /\ prof.op = "none"
  /\ prof' = [op |-> "analyze", out |-> analyzeMoment(args.birth, TRUE)]
  /\ UNCHANGED <<TermCache, cacheWrites, last, bm, BR_EL, args>>

NextCorrection == CallApplyLongitudeCorrection \/ CallAnalyze

SpecCorrection == InitCorrection /\ [][NextCorrection]_vars

\* ------------------------------------------------------------------------
\* Properties of the solar-term cache (Spec)
\* ------------------------------------------------------------------------

LastKey == CacheKey(last.year, last.termName)

\* none of the 50 daily samples of findSolarTerm(year, termName, lon) shows a
\* wraparound crossing (an Invalid Date start makes every sample NaN)
NoCrossing(year, termName, lon) ==
  \/ ~DateValid(year)
  \/ LET j0 == TermSearchStart(year, termName)
     IN  \A i \in 1..49 :
           ~(/\ TermOffset(j0 + (i - 1) * 1440, lon) > 3000000
             /\ TermOffset(j0 + i * 1440, lon) < 600000)

\* C1: in every step, every key of the cache keeps its entry and its value,
\* no key has been set more than once, and a findSolarTerm call whose key was
\* in the cache returns the stored value without taking a sample.
C1_WriteOncePerKey ==
  [][ /\ \A k \in DOMAIN TermCache :
           k \in DOMAIN TermCache' /\ TermCache'[k] = TermCache[k]
      /\ \A k \in DOMAIN cacheWrites' : cacheWrites'[k] <= 1
      /\ (/\ last'.op = "findSolarTerm"
          /\ CacheKey(last'.year, last'.termName) \in DOMAIN TermCache)
         => (/\ last'.ok
             /\ last'.hit
             /\ last'.samples = 0
             /\ last'.value = TermCache[CacheKey(last'.year, last'.termName)])
    ]_vars

\* a cache hit that returned a value another longitude had stored: not what
\* a search with the call's own longitude finds
C1_Witness ==
  /\ last.op = "findSolarTerm"
  /\ last.hit
  /\ cacheWrites[LastKey] = 1
  /\ LET s == TermSearch(last.year, last.termName, last.lon)
     IN  ~s.found \/ s.value # last.value

\* C2: a findSolarTerm call that searched and saw no crossing in its 50
\* samples throws TERM_NOT_FOUND with the term name and the year as details,
\* leaves the key out of the cache, and the same call repeated right away
\* fails in the same way.
C2_TermNotFound ==
  (/\ last.op = "findSolarTerm"
   /\ ~last.hit
   /\ NoCrossing(last.year, last.termName, last.lon))
  => /\ ~last.ok
     /\ last.err.code = "TERM_NOT_FOUND"
     /\ last.err.details = [termName |-> last.termName, year |-> last.year]
     /\ LastKey \notin DOMAIN TermCache
     /\ LET again == findSolarTerm(TermCache, last.year, last.termName, last.lon)
        IN  ~again.ok /\ again.err = last.err /\ again.cache = TermCache

\* an exhausted search of a year Dates can hold
C2_Witness ==
  /\ last.op = "findSolarTerm"
  /\ ~last.ok
  /\ last.samples = 50
  /\ DateValid(last.year)
  /\ NoCrossing(last.year, last.termName, last.lon)

NoonHourIdx(dayIdx) ==
  GAPJA_INDEX_MAP((((((dayIdx % 10) % 5) * 2) % 10) + 6) % 10, 6)

\* C4 as stated: without an hour the discrete result has no hour pillar and
\* no clock time was substituted.
C4_NoHourPillar ==
  (bm # <<>> /\ ~bm[1].hasTime /\ bm[1].discrete # <<>>)
  => /\ "hour" \notin DOMAIN bm[1].discrete[1].calc.idxs
     /\ "hour" \notin DOMAIN bm[1].discrete[1].calc.tgStem
     /\ bm[1].discrete[1].calc.input.hour = -1

\* C4 amended: without an hour computeDiscrete calculates with 12:00, so the
\* result carries the noon hour pillar and its ten-god entry, and is flagged
\* _hasTime = false.
C4_NoonSubstituted ==
  (bm # <<>> /\ ~bm[1].hasTime /\ bm[1].discrete # <<>>)
  => LET d == bm[1].discrete[1]
     IN  /\ d.hasTime = FALSE
         /\ d.calc.input.hour = 12
         /\ d.calc.input.minute = 0
         /\ d.calc.idxs.hour = NoonHourIdx(d.calc.idxs.day)
         /\ d.calc.idxs.hour % 12 = 6
         /\ "hour" \in DOMAIN d.calc.tgStem

\* a BirthMoment without hour whose discrete result has been computed
C4_Witness ==
  /\ bm # <<>>
  /\ bm[1].hour = -1
  /\ bm[1].discrete # <<>>
  /\ last.op = "computeDiscrete"
  /\ ~last.hit

\* ------------------------------------------------------------------------
\* Properties of the fortune scorer (SpecProfile, SpecDisruption)
\* ------------------------------------------------------------------------

Called == prof.op = "computeProfile"

\* the positions an interactions entry names
Named(x) == {x.source[i] : i \in 1..Len(x.source)}
              \cup {x.target[i] : i \in 1..Len(x.target)}

HasInteraction(type, source, target) ==
  \E i \in 1..Len(prof.ret.interactions) :
    /\ prof.ret.interactions[i].type = type
    /\ prof.ret.interactions[i].source = <<source>>
    /\ prof.ret.interactions[i].target = <<target>>

\* hour indices and hour angles another caller could have passed
OtherHourIdxs == HourIdxs \cup {33}

OtherHourAngles == {-1, 0, 90}

WithHour(a, h, ang) ==
  [a EXCEPT !.natalDiscrete.idxs.hour = h,
            !.natalAngles = IF a.natalAngles = <<>> THEN <<>>
                            ELSE <<[a.natalAngles[1] EXCEPT !.hour = ang]>>]

ProfileOf(a) ==
  computeProfile(BR_EL_Loaded, a.natalDiscrete, a.hasTime, a.fortunePillars,
                 a.natalAngles)

\* C5: a computeProfile call with hasTime = false returns the same output
\* for every natal hour index and hour angle; no interaction names the hour
\* position, only the day, month and year stems and the overlay stems
\* contribute, and the percentages are taken over the sum of the five
\* element totals of those positions.
C5_HourIgnored ==
  (Called /\ ~prof.args.hasTime)
  => /\ \A h \in OtherHourIdxs, ang \in OtherHourAngles :
          ProfileOf(WithHour(prof.args, h, ang)).ret = prof.ret
     /\ \A i \in 1..Len(prof.ret.interactions) :
          "hour" \notin Named(prof.ret.interactions[i])
     /\ \A i \in 1..Len(prof.trace.stemOwn) : prof.trace.stemOwn[i].p # "hour"
     /\ Len(prof.trace.stemOwn)
          = 3 + Len(fortunePositions(prof.args.fortunePillars))
     /\ prof.ret.total = SumSeq(prof.ret.oheng.raw)
     /\ prof.ret.oheng.percent
          = [k \in 1..5 |-> RoundPermille(prof.ret.oheng.raw[k], prof.ret.total)]

\* a call without birth time on a chart with angles and overlay pillars,
\* where the same call with birth time returns another output
C5_Witness ==
  /\ Called
  /\ ~prof.args.hasTime
  /\ prof.args.natalAngles # <<>>
  /\ prof.args.fortunePillars.daeun # -1
  /\ Len(prof.ret.interactions) > 0
  /\ ProfileOf([prof.args EXCEPT !.hasTime = TRUE]).ret # prof.ret

\* the sum of oheng.percent, in tenths of a percent
PercentSum == SumSeq(prof.ret.oheng.percent)

\* C6 as stated: the five one-decimal percentages sum to a value between
\* 99.9 and 100.1.
C6_PercentSumWithinTenth ==
  Called => (PercentSum >= 999 /\ PercentSum <= 1001)

\* C6 amended: the five one-decimal percentages, each rounded on its own, sum
\* to a value between 99.8 and 100.2.
C6_PercentSumWithinTwoTenths ==
  Called => (PercentSum >= 998 /\ PercentSum <= 1002)

\* a call whose percentages sum to 100.2
C6_Witness ==
  /\ Called
  /\ PercentSum = 1002

\* C7: the penalty _computeDisruption returns is at least 0 and at most
\* DISRUPTION_CAP (0.04), whatever the clash events, the element totals and
\* the day stem; it is the uncapped amount when that is below the cap.
C7_PenaltyCapped ==
  (prof.op = "computeDisruption")
  => /\ prof.penalty >= 0
     /\ prof.penalty <= DISRUPTION_CAP
     /\ prof.penalty = Min(prof.raw, DISRUPTION_CAP)

\* clash events computeProfile collected whose uncapped amount passes the cap
C7_Witness ==
  /\ prof.op = "computeDisruption"
  /\ prof.raw > DISRUPTION_CAP
  /\ prof.penalty = DISRUPTION_CAP
  /\ \E c \in ClashCharts :
       /\ ProfileOf(c).trace.clashEvents = prof.clashEvents
       /\ ProfileOf(c).trace.oh = prof.oh

NatalCombined(type) ==
  UNION { Named(prof.ret.interactions[i]) :
            i \in {j \in 1..Len(prof.ret.interactions) :
                     /\ prof.ret.interactions[j].type = type
                     /\ prof.ret.interactions[j].source[1]
                          \notin {"daeun", "saeun", "wolun"}} }

NatalIdx(np) == prof.args.natalDiscrete.idxs[np]

FortuneIdx(fp) == prof.args.fortunePillars[fp]

HasRelation(rels, type) == \E i \in 1..Len(rels) : rels[i].type = type

NumClashInteractions ==
  Cardinality({i \in 1..Len(prof.ret.interactions) :
                 prof.ret.interactions[i].type
                   \in {"cheonganchung", "jijichung"}})

\* C9: a natal position of a natal-internal stem-combine (branch
\* six-combine) gets no stem-combine (branch six-combine) with an overlay
\* pillar, and every stem clash and branch clash between an overlay pillar
\* and a natal position, combined or not, is recorded as an interaction and
\* as a clash event.
C9_ClashStillDetected ==
  Called
  => /\ \A i \in 1..Len(fortunePositions(prof.args.fortunePillars)),
          j \in 1..Len(natalPositions(prof.args.hasTime)) :
          LET fp == fortunePositions(prof.args.fortunePillars)[i]
              np == natalPositions(prof.args.hasTime)[j]
          IN  /\ np \in NatalCombined("cheonganhap")
                 => ~HasInteraction("cheonganhap", fp, np)
              /\ np \in NatalCombined("jijihap")
                 => ~HasInteraction("jijihap", fp, np)
              /\ HasRelation(checkStemPair(FortuneIdx(fp) % 10,
                                           NatalIdx(np) % 10), "chung")
                 => HasInteraction("cheonganchung", fp, np)
              /\ HasRelation(checkBranchPair(FortuneIdx(fp) % 12,
                                             NatalIdx(np) % 12), "chung")
                 => HasInteraction("jijichung", fp, np)
     /\ Len(prof.trace.clashEvents) = NumClashInteractions

\* the adjacent natal pairs <<k, k + 1>> whose stems form a stem-combine
StemCombinePairs ==
  {k \in 1..(Len(natalPositions(prof.args.hasTime)) - 1) :
     HasRelation(checkStemPair(
                   NatalIdx(natalPositions(prof.args.hasTime)[k]) % 10,
                   NatalIdx(natalPositions(prof.args.hasTime)[k + 1]) % 10),
                 "hap")}

\* the element of the stem-combine of two stems
StemCombineElement(s1, s2) ==
  (CHOOSE t \in {STEM_COMBINE[i] : i \in 1..Len(STEM_COMBINE)} :
     PairMatch(s1, s2, t))[3]

\* what the stem of position p adds to its own element in a call's trace
StemOwn(trace, p) ==
  trace.stemOwn[CHOOSE i \in 1..Len(trace.stemOwn) :
                  trace.stemOwn[i].p = p].amount

\* the charts equal to the call's but for the stem of position q, which
\* takes each other stem its branch goes with
WithoutAdjacency(q) ==
  { [prof.args EXCEPT !.natalDiscrete.idxs[q] = (NatalIdx(q) + 12 * j) % 60] :
      j \in 1..4 }

\* an interactions entry for each adjacent stem-combine pair, naming the
\* element of the combine
PairsRecorded ==
  \A k \in StemCombinePairs :
    LET p1 == natalPositions(prof.args.hasTime)[k]
        p2 == natalPositions(prof.args.hasTime)[k + 1]
    IN  \E i \in 1..Len(prof.ret.interactions) :
          prof.ret.interactions[i]
            = [type |-> "cheonganhap", source |-> <<p1>>, target |-> <<p2>>,
               el |-> StemCombineElement(NatalIdx(p1) % 10, NatalIdx(p2) % 10)]

\* the stem of p adds less to its own element than in each chart without
\* the adjacency to q
OwnLowered(p, q) ==
  \A alt \in WithoutAdjacency(q) :
    StemOwn(prof.trace, p) < StemOwn(ProfileOf(alt).trace, p)

\* an overlay pillar supplied has the stem that combines with the stem of p
OverlayCombines(p) ==
  \E i \in 1..Len(fortunePositions(prof.args.fortunePillars)) :
    HasRelation(checkStemPair(
                  FortuneIdx(fortunePositions(prof.args.fortunePillars)[i]) % 10,
                  NatalIdx(p) % 10), "hap")

\* C10 as stated: each adjacent stem-combine pair has its interactions
\* entry with the resulting element, and each of its two stems adds strictly
\* less to its own element than in the chart without the adjacency.
C10_OwnContributionLower ==
  Called
  => /\ PairsRecorded
     /\ \A k \in StemCombinePairs :
          LET p1 == natalPositions(prof.args.hasTime)[k]
              p2 == natalPositions(prof.args.hasTime)[k + 1]
          IN  OwnLowered(p1, p2) /\ OwnLowered(p2, p1)

\* C10 amended: each adjacent stem-combine pair has its interactions entry
\* with the resulting element, and a stem of the pair adds strictly less to
\* its own element than in the chart without the adjacency provided the
\* resulting element is not the stem's own element and no overlay pillar
\* supplied has the stem that combines with it.
C10_OwnContributionLowerUnlessOwnOrOverlay ==
  Called
  => /\ PairsRecorded
     /\ \A k \in StemCombinePairs :
          LET p1 == natalPositions(prof.args.hasTime)[k]
              p2 == natalPositions(prof.args.hasTime)[k + 1]
              el == StemCombineElement(NatalIdx(p1) % 10, NatalIdx(p2) % 10)
          IN  /\ (CHEONGAN_OHENG(NatalIdx(p1) % 10) # el /\ ~OverlayCombines(p1))
                 => OwnLowered(p1, p2)
              /\ (CHEONGAN_OHENG(NatalIdx(p2) % 10) # el /\ ~OverlayCombines(p2))
                 => OwnLowered(p2, p1)

\* a chart with the day and month stems combined and overlay pillars
\* supplied, where the day stem adds less to its own element
C10_Witness ==
  /\ Called
  /\ StemCombinePairs # {}
  /\ prof.args.fortunePillars.daeun # -1
  /\ \E k \in StemCombinePairs :
       LET p1 == natalPositions(prof.args.hasTime)[k]
           p2 == natalPositions(prof.args.hasTime)[k + 1]
       IN  /\ ~OverlayCombines(p1)
           /\ CHEONGAN_OHENG(NatalIdx(p1) % 10)
                # StemCombineElement(NatalIdx(p1) % 10, NatalIdx(p2) % 10)
           /\ OwnLowered(p1, p2)

\* ------------------------------------------------------------------------
\* Properties of the resistance and interaction factors (SpecProfile)
\* ------------------------------------------------------------------------

\* the entry of position p in sd or bd of a call's trace
PillarOf(data, p) == data[CHOOSE i \in 1..Len(data) : data[i].base.p = p]

\* position p holds a transform to element e of fraction f
HasTransform(data, p, e, f) ==
  \E n \in 1..Len(PillarOf(data, p).tr) :
    PillarOf(data, p).tr[n] = [e |-> e, f |-> f]

\* the resistance multiplier C11 gives for a target position
ResistanceOf(target) == IF target \in {"day", "month"} THEN Half ELSE U

\* the interactions entry of a type from source to target, if any
InteractionsOf(type, source, target) ==
  {i \in 1..Len(prof.ret.interactions) :
     /\ prof.ret.interactions[i].type = type
     /\ prof.ret.interactions[i].source = <<source>>
     /\ prof.ret.interactions[i].target = <<target>>}

AllPositions == {"hour", "day", "month", "year"}

\* C11: for every adjacent natal pair of a call and either member as
\* target, resFactor is 0.5 when the target is the day or the month pillar
\* and 1 when it is the hour or the year pillar; the fraction a natal
\* stem-combine or six-combine converts on a member is the base fraction
\* times that value; and resFactor returns 0.5 or 1 for any positions.
C11_ResistanceAsymmetric ==
  Called
  => /\ \A k \in 1..(Len(natalPositions(prof.args.hasTime)) - 1) :
          LET p1 == natalPositions(prof.args.hasTime)[k]
              p2 == natalPositions(prof.args.hasTime)[k + 1]
          IN  /\ resFactor(p1, p2, p1) = ResistanceOf(p1)
              /\ resFactor(p1, p2, p2) = ResistanceOf(p2)
              /\ \A i \in InteractionsOf("cheonganhap", p1, p2) :
                   \A p \in {p1, p2} :
                     HasTransform(prof.trace.sd, p,
                                  prof.ret.interactions[i].el,
                                  MulU(Third, ResistanceOf(p)))
              /\ \A i \in InteractionsOf("jijihap", p1, p2) :
                   \A p \in {p1, p2} :
                     HasTransform(prof.trace.bd, p,
                                  prof.ret.interactions[i].el,
                                  MulU(TwoThirds, ResistanceOf(p)))
     /\ \A p1 \in AllPositions, p2 \in AllPositions, t \in AllPositions :
          resFactor(p1, p2, t) \in {Half, U}

\* a chart with birth time whose hour and day branches combine: the hour
\* branch converts the full fraction, the day branch half of it
C11_Witness ==
  /\ Called
  /\ prof.args.hasTime
  /\ InteractionsOf("jijihap", "hour", "day") # {}
  /\ \E e \in 0..4 :
       /\ HasTransform(prof.trace.bd, "hour", e, TwoThirds)
       /\ HasTransform(prof.trace.bd, "day", e, MulU(TwoThirds, Half))

\* the interaction weight C12 gives for a natal position
InteractionWeightOf(np) ==
  CASE np = "month" -> U
    [] np = "day" -> (77 * U) \div 100
    [] np \in {"year", "hour"} -> U \div 2

\* the fraction C12 gives for a combine of an overlay pillar with np: the
\* base fraction times the weight of np times 0.35
OverlayFraction(base, np) ==
  MulU(MulU(base, InteractionWeightOf(np)), (35 * U) \div 100)

FortuneSet == {"daeun", "saeun", "wolun"}

\* C12: every stem-combine (six-combine) recorded between an overlay pillar
\* and a natal position np has converted, on the overlay pillar and on np
\* alike, the fraction 1/3 (2/3) times 0.35 times the interaction weight of
\* np (month 1.0, day 0.77, year and hour 0.5), whatever the resistance
\* multiplier of np is.
C12_OverlayCombineFraction ==
  Called
  => \A fp \in FortuneSet, np \in AllPositions :
       /\ \A i \in InteractionsOf("cheonganhap", fp, np) :
            \A p \in {fp, np} :
              HasTransform(prof.trace.sd, p, prof.ret.interactions[i].el,
                           OverlayFraction(Third, np))
       /\ \A i \in InteractionsOf("jijihap", fp, np) :
            \A p \in {fp, np} :
              HasTransform(prof.trace.bd, p, prof.ret.interactions[i].el,
                           OverlayFraction(TwoThirds, np))

\* a call where an overlay pillar combines in stem and in branch with the
\* day pillar, whose resistance multiplier is 0.5
C12_Witness ==
  /\ Called
  /\ \E fp \in FortuneSet :
       /\ InteractionsOf("cheonganhap", fp, "day") # {}
       /\ InteractionsOf("jijihap", fp, "day") # {}
       /\ ResistanceOf("day") = Half
       /\ \E e \in 0..4 :
            HasTransform(prof.trace.sd, "day", e, OverlayFraction(Third, "day"))

\* ------------------------------------------------------------------------
\* Properties of the day pillar (SpecDay)
\* ------------------------------------------------------------------------

DayCalled == prof.op = "dayPillar"

\* the calendar date after (y, m, d)
NextDate(y, m, d) ==
  IF d < DaysInMonth(y, m) THEN [year |-> y, month |-> m, day |-> d + 1]
  ELSE IF m < 12 THEN [year |-> y, month |-> m + 1, day |-> 1]
  ELSE [year |-> y + 1, month |-> 1, day |-> 1]

\* the calendar date n days after `date`, month by month
RECURSIVE DateAfter(_, _)
DateAfter(date, n) ==
  LET left == DaysInMonth(date.year, date.month) - date.day
  IN  IF n <= left THEN [date EXCEPT !.day = date.day + n]
      ELSE DateAfter(NextDate(date.year, date.month, date.day + left),
                     n - left - 1)

TomorrowOfArgs == NextDate(args.year, args.month, args.day)

\* C13: for a birth before 23:00 the day index of the next calendar date at
\* the same clock time is the day index plus one mod 60, the date 60
\* calendar days later has the same day index, and every clock time before
\* 23:00 gives the same day index.
C13_DayPillarStepsByOne ==
  (DayCalled /\ args.hour < 23) =>
    /\ \A s \in LocalShifts :
         dayPillar(TomorrowOfArgs.year, TomorrowOfArgs.month,
                   TomorrowOfArgs.day, args.hour, s)
           = (prof.dayIdx + 1) % 60
    /\ \A s \in LocalShifts :
         LET d == DateAfter([year |-> args.year, month |-> args.month,
                             day |-> args.day], 60)
         IN  dayPillar(d.year, d.month, d.day, args.hour, s) = prof.dayIdx
    /\ \A h \in 0..22 :
         dayPillar(args.year, args.month, args.day, h, args.shift)
           = prof.dayIdx

\* a birth at noon on the last day of a leap February under summer time
C13_Witness ==
  /\ DayCalled
  /\ args.hour = 12
  /\ args.month = 2 /\ args.day = 29
  /\ args.shift = 60
  /\ TomorrowOfArgs.month = 3
  /\ dayPillar(TomorrowOfArgs.year, 3, 1, 12, 0) = (prof.dayIdx + 1) % 60

\* C14: a birth at hour 23 has the day index of a birth before 23:00 on the
\* next calendar date, and the clock time acts on the day index in no other
\* way: every hour below 23 gives the index of midnight, hour 23 gives that
\* index plus one, and the hour branch of 23:00 onwards is the first one.
C14_RolloverAtTwentyThree ==
  DayCalled =>
    /\ args.hour = 23 =>
         /\ \A h \in 0..22, s \in LocalShifts :
              dayPillar(TomorrowOfArgs.year, TomorrowOfArgs.month,
                        TomorrowOfArgs.day, h, s) = prof.dayIdx
         /\ prof.hour.branch = 0
    /\ \A h \in 0..23 :
         dayPillar(args.year, args.month, args.day, h, args.shift)
           = (dayPillar(args.year, args.month, args.day, 0, args.shift)
              + (IF h = 23 THEN 1 ELSE 0)) % 60
    /\ prof.dayIdx
         = (dayPillar(args.year, args.month, args.day, 0, args.shift)
            + (IF args.hour = 23 THEN 1 ELSE 0)) % 60

\* a birth at 23:00 on the last day of a year: the index of 1 January, not
\* that of 22:59 of the same day
C14_Witness ==
  /\ DayCalled
  /\ args.hour = 23 /\ args.minute = 0
  /\ args.month = 12 /\ args.day = 31
  /\ prof.dayIdx = dayPillar(args.year + 1, 1, 1, 12, 0)
  /\ prof.dayIdx # dayPillar(args.year, 12, 31, 22, args.shift)

\* ------------------------------------------------------------------------
\* Properties of the four pillar indices (Spec)
\* ------------------------------------------------------------------------

\* a (stem, branch) pair and the index looked up for it agree
PillarDefined(p) ==
  /\ p.stem \in 0..9
  /\ p.branch \in 0..11
  /\ p.stem % 2 = p.branch % 2
  /\ p.idx \in 0..59
  /\ p.idx % 10 = p.stem
  /\ p.idx % 12 = p.branch

\* every year index and month number gives a defined month pillar
MonthPillarsDefined ==
  \A yi \in 0..59, mn \in 1..12 : PillarDefined(monthPillar(yi, mn))

\* every day index and clock time gives a defined hour pillar
HourPillarsDefined ==
  \A di \in 0..59, h \in 0..23, mi \in {0, 1, 59} :
    PillarDefined(hourPillar(di, h, mi))

\* every saju year of an accepted birth year gives a year index in range
YearPillarsDefined ==
  \A y \in (MinBirthYear - 1)..MaxBirthYear : yearPillar(y) \in 0..59

CalculateDone == last.op = "calculate" /\ last.ok

\* C15: the four indices calculate returns for a valid birth are in 0..59,
\* so stem idx % 10 and branch idx % 12 are in range; the stem and branch
\* computed for the hour and for the month pillar have equal parity for
\* every day index, clock time, year index and month number, so the
\* GAPJA_INDEX_MAP lookup is defined.
C15_PillarIndicesInRange ==
  /\ MonthPillarsDefined
  /\ HourPillarsDefined
  /\ YearPillarsDefined
  /\ CalculateDone =>
       LET r == last.result[1]
       IN  /\ \A k \in 1..4 :
                /\ r.idxs[Positions[k]] \in 0..59
                /\ r.idxs[Positions[k]] % 10 \in 0..9
                /\ r.idxs[Positions[k]] % 12 \in 0..11
           /\ r.monthNum \in 1..12
           /\ r.idxs.month = monthPillar(r.idxs.year, r.monthNum).idx
           /\ r.idxs.hour
                = hourPillar(r.idxs.day, r.input.hour, r.input.minute).idx
           /\ r.idxs.year = yearPillar(r.sajuYear)

\* a calculate call for a birth at 23:00 returned four indices
C15_Witness ==
  /\ CalculateDone
  /\ last.result[1].input.hour = 23
  /\ last.result[1].idxs.hour \in 0..59
  /\ last.result[1].idxs.month \in 0..59
  /\ last.result[1].idxs.hour % 12 = 0

\* the index of the sexagenary year y (year 4 of the era is the first of a
\* cycle)
SexagenaryYear(y) == (y - 4) % 60

\* the start-of-spring instant calculate found for the calendar year y
IpchunOf(y) == findSolarTerm(TermCache, y, "ipchun", 315).value

\* C16: a birth strictly before the start-of-spring instant of its calendar
\* year Y has the year index of the sexagenary year Y - 1, a birth at or
\* after that instant the year index of Y.
C16_YearTurnsAtIpchun ==
  CalculateDone =>
    LET r == last.result[1]
        y == r.input.year
    IN  /\ r.birthKST < IpchunOf(y) => r.idxs.year = SexagenaryYear(y - 1)
        /\ r.birthKST >= IpchunOf(y) => r.idxs.year = SexagenaryYear(y)

\* a birth exactly at the start-of-spring instant, on the day on which an
\* earlier birth still belongs to the year before
C16_Witness ==
  /\ CalculateDone
  /\ last.result[1].birthKST = IpchunOf(last.year)
  /\ last.result[1].idxs.year = SexagenaryYear(last.year)
  /\ last.result[1].sajuYear = last.year

\* ------------------------------------------------------------------------
\* Properties of the decade luck (SpecDaeun)
\* ------------------------------------------------------------------------

DaeunCalled == prof.op = "daeun"

\* the next and the previous index of the 60-cycle
CycleNext(i) == IF i = 59 THEN 0 ELSE i + 1

CyclePrev(i) == IF i = 0 THEN 59 ELSE i - 1

\* C17: the decade-luck list runs forward exactly when the year stem is
\* even and the gender male, or the year stem odd and the gender not male;
\* it has 12 periods, the i-th with index (month index + i) mod 60 when
\* forward and (month index - i) mod 60 when backward, so each period is
\* one step of the cycle after the one before it in that direction.
C17_DaeunDirectionAndSteps ==
  DaeunCalled =>
    LET stemEven == (args.result.idxs.year % 10) % 2 = 0
        male == args.gender = "m"
        list == prof.ret.list
        m == args.result.idxs.month
    IN  /\ prof.ret.forward <=> ((stemEven /\ male) \/ (~stemEven /\ ~male))
        /\ Len(list) = 12
        /\ \A i \in 1..12 :
             list[i].idx = IF prof.ret.forward THEN (m + i) % 60
                           ELSE (m + 60 - i) % 60
        /\ \A i \in 1..12 :
             list[i].idx
               = LET before == IF i = 1 THEN m ELSE list[i - 1].idx
                 IN  IF prof.ret.forward THEN CycleNext(before)
                     ELSE CyclePrev(before)

\* a backward list for a man of an odd year stem that passes index 0
C17_Witness ==
  /\ DaeunCalled
  /\ args.gender = "m"
  /\ args.result.idxs.year % 2 = 1
  /\ ~prof.ret.forward
  /\ \E i \in 2..12 : prof.ret.list[i - 1].idx = 0 /\ prof.ret.list[i].idx = 59

\* ------------------------------------------------------------------------
\* Properties of the functions of an angle (SpecAngle)
\* ------------------------------------------------------------------------

Abs(x) == IF x < 0 THEN 0 - x ELSE x

\* C18: at a branch centre (30k degrees, k = 0..11) ohengStrengthAtAngle
\* returns the ratios of BRANCH_OHENG_RATIOS[k] for all five elements, to
\* within one millionth.
C18_StrengthAtCentreIsStaticRatio ==
  prof.op = "ohengStrengthAtAngle" =>
    \A e \in 1..5 :
      Abs(prof.ret[e]
          - BRANCH_OHENG_RATIOS[(args.theta \div 3000) + 1][e] * (U \div 10))
        <= 1

\* the centre of the branch chuk, whose ratios hold three elements
C18_Witness ==
  /\ prof.op = "ohengStrengthAtAngle"
  /\ args.theta = 3000
  /\ prof.ret = <<0, 0, 6 * (U \div 10), U \div 10, 3 * (U \div 10)>>

\* the influence values of the call made: the array allBranchInfluences
\* returns, or the influences field of the blended profile
InfluencesReturned ==
  IF prof.op = "allBranchInfluences" THEN prof.ret ELSE prof.ret.influences

\* the branches whose centres bracket the angle: the one at or before it
\* and the next one
BracketLeft == (normalizeAngle(args.theta) \div 3000) % 12

BracketRight == (BracketLeft + 1) % 12

\* C19: of the 12 influence values at most two are non-zero, and only those
\* of the two adjacent branches whose centres bracket the angle; every
\* value is in [0, 1]; the 12 values sum to 1; at a branch centre that
\* branch has influence 1 and every other branch 0.
C19_InfluencesLocal ==
  prof.op \in {"allBranchInfluences", "getBlendedBranchProfile"} =>
    LET inf == InfluencesReturned
    IN  /\ DOMAIN inf = 0..11
        /\ Cardinality({b \in 0..11 : inf[b] # 0}) <= 2
        /\ \A b \in 0..11 : inf[b] # 0 => b \in {BracketLeft, BracketRight}
        /\ \A b \in 0..11 : inf[b] >= 0 /\ inf[b] <= U
        /\ SumTo([k \in 1..12 |-> inf[k - 1]], 12) = U
        /\ normalizeAngle(args.theta) % 3000 = 0 =>
             \A b \in 0..11 : inf[b] = IF b = BracketLeft THEN U ELSE 0
        /\ prof.op = "getBlendedBranchProfile" => prof.ret.totalInfluence = U

\* an angle between the centres of hae and ja, given as a negative angle:
\* both neighbours across the wrap have a share
C19_Witness ==
  /\ prof.op = "allBranchInfluences"
  /\ args.theta < 0
  /\ prof.ret[11] > 0 /\ prof.ret[0] > prof.ret[11]
  /\ prof.ret[0] + prof.ret[11] = U

\* ------------------------------------------------------------------------
\* Properties of the date to angle converters (SpecDateAngle)
\* ------------------------------------------------------------------------

\* the birth is exactly halfway between the two starts (fraction 0.5)
AtMidpoint ==
  /\ args.next > args.cur
  /\ 2 * (args.birth - args.cur) = args.next - args.cur

\* C20: for a birth at the midpoint between the start of its term and the
\* start of the next one, dateToMonthAngle and dateToYearAngle return
\* branchIdx * 30 degrees normalised to [0, 360).
C20_MidpointIsBranchCentre ==
  (prof.op \in {"dateToMonthAngle", "dateToYearAngle"} /\ AtMidpoint) =>
    /\ prof.ret \in 0..35999
    /\ prof.ret = (args.branchIdx % 12) * 3000

\* the midpoint of a term of the branch hae
C20_Witness ==
  /\ prof.op = "dateToMonthAngle"
  /\ AtMidpoint
  /\ args.branchIdx = 11
  /\ prof.ret = 33000

\* ------------------------------------------------------------------------
\* Properties of the work of a findSolarTerm call (Spec)
\* ------------------------------------------------------------------------

\* C21: a findSolarTerm call takes at most 50 daily samples; a call that
\* refines a crossing runs exactly 52 bisection rounds, a call that finds
\* none runs no round after its 50 samples, and a call that hits the cache
\* takes no sample and runs no round.
C21_BoundedSearchWork ==
  last.op = "findSolarTerm" =>
    /\ last.samples \in 0..50
    /\ last.steps \in {0, 52}
    /\ (last.ok /\ ~last.hit) => (last.steps = 52 /\ last.samples >= 2)
    /\ ~last.ok => (last.samples = 50 /\ last.steps = 0)
    /\ last.hit => (last.samples = 0 /\ last.steps = 0)

\* a call that missed the cache, met the crossing before its last sample and
\* refined it
C21_Witness ==
  /\ last.op = "findSolarTerm"
  /\ last.ok /\ ~last.hit
  /\ last.samples \in 2..49
  /\ last.steps = 52

\* ------------------------------------------------------------------------
\* Properties of the lazy caches of a BirthMoment (SpecLazy)
\* ------------------------------------------------------------------------

\* the cache fields that are set once and kept
KeptFields == {"discrete", "continuous", "matrix", "oheng", "daeun"}

\* C22 as stated: the discrete calculation runs at most once and no call
\* ever replaces or recomputes a derived structure that was cached.
C22_NeverRecomputed ==
  /\ prof.runs["discrete"] <= 1
  /\ prof.replaced = {}

\* C22: once computeDiscrete has stored its result, every later call of a
\* compute method, in any order, leaves that result in place and runs the
\* discrete calculation no more; the continuous snapshot, the matrix, the
\* oheng analysis and the decade list, once cached, are neither replaced
\* nor computed again; the cached yearly list is replaced only by a
\* computeSaeun call for another range than the cached one; the monthly
\* list is computed on every computeWolun call; a discrete calculation
\* that throws stores nothing and runs again on the next call.
C22_DiscreteComputedOnceAndReused ==
  [][ /\ \A f \in KeptFields :
           bm[1][f] # <<>> =>
             /\ bm'[1][f] = bm[1][f]
             /\ prof'.runs[f] = prof.runs[f]
      /\ (bm[1].saeun # <<>> /\ "saeun" \in prof'.call.ran) =>
             /\ prof'.call.op = "computeSaeun"
             /\ <<prof'.call.s, prof'.call.e>> # bm[1].saeunRange
      /\ (bm[1].saeun # <<>> /\ "saeun" \notin prof'.call.ran) =>
             /\ bm'[1].saeun = bm[1].saeun
             /\ bm'[1].saeunRange = bm[1].saeunRange
      /\ (prof'.call.op = "computeWolun" /\ prof'.call.ok) =>
             "wolun" \in prof'.call.ran
      /\ (bm[1].discrete = <<>> /\ ~prof'.call.ok) =>
             /\ "discrete" \in prof'.call.ran
             /\ bm'[1].discrete = <<>>
    ]_vars

\* a yearly list was replaced after every method had been called on a
\* BirthMoment whose discrete calculation ran once
C22_Witness ==
  /\ bm[1].discrete # <<>>
  /\ prof.runs["discrete"] = 1
  /\ \A c \in Calculations : prof.runs[c] >= 1
  /\ prof.runs["saeun"] = 2
  /\ "saeun" \in prof.replaced

\* ------------------------------------------------------------------------
\* Properties of the weight a computeProfile call distributes (SpecProfile)
\* ------------------------------------------------------------------------

\* the rounding allowed on a sum of weighted amounts (a 1000th of a weight)
WeightSlack == U \div 1000

\* the stem and branch position weights of all active positions
PositionWeights(trace) ==
  SumSeq([i \in 1..Len(trace.sd) |-> trace.sd[i].base.w * U])
    + SumSeq([i \in 1..Len(trace.bd) |-> trace.bd[i].base.w * U])

\* the most transforms one stem or branch position carries
MostTransforms(trace) ==
  LET counts == {Len(trace.sd[i].tr) : i \in 1..Len(trace.sd)}
                  \cup {Len(trace.bd[i].tr) : i \in 1..Len(trace.bd)}
  IN  CHOOSE n \in counts : \A k \in counts : k <= n

\* C23: the five raw element totals before the clash disruption add up to
\* the stem and branch position weights of all active positions, whatever
\* combines apply to a pillar.
C23_WeightConserved ==
  prof.op = "computeProfile" =>
    Abs(SumSeq(prof.trace.oh) - PositionWeights(prof.trace)) <= WeightSlack

\* C23, what the code does: the raw totals add up to the position weights
\* as long as no stem or branch position carries two transforms, and exceed
\* them as soon as one does (own factor a product, transforms a sum).
C23_ConservedUpToOneTransform ==
  prof.op = "computeProfile" =>
    IF MostTransforms(prof.trace) <= 1
    THEN Abs(SumSeq(prof.trace.oh) - PositionWeights(prof.trace))
           <= WeightSlack
    ELSE SumSeq(prof.trace.oh) > PositionWeights(prof.trace) + WeightSlack

C23_Witness ==
  /\ prof.op = "computeProfile"
  /\ MostTransforms(prof.trace) = 1

\* ------------------------------------------------------------------------
\* Properties of the clash-disruption penalty (SpecProfile)
\* ------------------------------------------------------------------------

\* what the call would have returned had it collected no clash event
WithoutClashEvents ==
  ProfileResult(prof.trace.sd, prof.trace.bd, <<>>,
                prof.args.natalDiscrete.idxs.day % 10).out

\* a penalty was applied by the call
PenaltyApplied ==
  prof.op = "computeProfile" /\ prof.trace.disruptionPenalty > 0

\* the oheng.percent vectors the call can return in double arithmetic
PercentOutcomes ==
  IF PenaltyApplied THEN PenalisedPercents(prof.trace.oh)
  ELSE {prof.ret.oheng.percent}

ContainingIntervals(result) ==
  { i \in 1..12 : /\ result.birthKST >= result.boundaries[i]
                  /\ result.birthKST < result.boundaries[i + 1] }

\* C25: exactly one of the 12 half-open intervals between the monthly term
\* boundaries of the chosen sexagenary year holds the birth instant, and
\* the month number, the current and the next term are those of that
\* interval: the defaults set before the loop never stand.
C25_ExactlyOneInterval ==
  (last.op = "calculate" /\ last.ok) =>
    Only({ /\ Len(r.boundaries) = 13
           /\ \A i \in 1..12 : r.boundaries[i] < r.boundaries[i + 1]
           /\ Cardinality(ContainingIntervals(r)) = 1
           /\ r.intervalFound
           /\ \A i \in ContainingIntervals(r) :
                /\ r.monthNum = TermDefs[i].monthNum
                /\ r.curTerm = TermDefs[i].name
                /\ r.curTermDt = r.boundaries[i]
                /\ r.nextTermDt = r.boundaries[i + 1] :
           r \in {last.result[1]} })

\* a birth at a term boundary other than the first, in its own interval
C25_Witness ==
  /\ last.op = "calculate" /\ last.ok
  /\ last.result[1].monthNum = 7
  /\ last.result[1].birthKST = last.result[1].boundaries[7]

\* ------------------------------------------------------------------------
\* Properties of the cache under the core callers (SpecCore)
\* ------------------------------------------------------------------------

\* the uncached search for the request `req` of a caller
Uncached(req) == args.search[CacheKey(req.year, req.name)]

\* the findSolarTerm requests a WolunCalculator.calculate(targetYear) issues
WolunReqs(targetYear) ==
  [k \in 1..12 |->
     [year |-> IF k = 12 THEN targetYear + 1 ELSE targetYear,
      name |-> TermDefs[k].name, lon |-> TermDefs[k].lon]]

\* C26: whatever calculate and WolunCalculator calls came before, every
\* value a findSolarTerm call returns to them is the one an uncached search
\* with the same year, term name and longitude returns, a call fails
\* exactly when that search fails, and every cached value is the uncached
\* one of its key.
C26_CacheTransparent ==
  /\ \A key \in DOMAIN TermCache :
       /\ args.search[key].found
       /\ TermCache[key] = args.search[key].value
  /\ (last.op = "calculate" /\ last.ok) =>
       Only({ /\ r.sajuYear =
                   (IF r.birthKST < Uncached([year |-> last.year,
                                              name |-> "ipchun"]).value
                    THEN last.year - 1 ELSE last.year)
              /\ \A k \in 1..13 :
                   /\ BoundaryReqs(r.sajuYear)[k].lon =
                        TermLongitude(BoundaryReqs(r.sajuYear)[k].name)
                   /\ Uncached(BoundaryReqs(r.sajuYear)[k]).found
                   /\ r.boundaries[k] =
                        Uncached(BoundaryReqs(r.sajuYear)[k]).value :
              r \in {last.result[1]} })
  /\ (last.op = "calculate" /\ ~last.ok) =>
       ~Uncached([year |-> last.year, name |-> "ipchun"]).found
  /\ last.op = "wolun" =>
       \A k \in 1..12 :
         /\ WolunReqs(last.year)[k].lon =
              TermLongitude(WolunReqs(last.year)[k].name)
         /\ last.result[k].termDtNull = ~Uncached(WolunReqs(last.year)[k]).found
         /\ ~last.result[k].termDtNull =>
              last.result[k].termDt = Uncached(WolunReqs(last.year)[k]).value

\* a monthly-luck call served from what a calculate call had cached before
\* it, no key written twice
C26_Witness ==
  /\ last.op = "wolun" /\ last.year = BaseYear + 1 /\ last.failures = 0
  /\ CacheKey(BaseYear + 2, "ipchun") \in DOMAIN TermCache
  /\ \A key \in DOMAIN TermCache : cacheWrites[key] = 1

\* ------------------------------------------------------------------------
\* Properties of the yearly luck list of a BirthMoment (SpecLazy)
\* ------------------------------------------------------------------------

\* computeSaeun(s, e) with s <= e has returned
SaeunReturned ==
  /\ prof.call.op = "computeSaeun" /\ prof.call.ok
  /\ prof.call.s <= prof.call.e

\* C27: computeSaeun(s, e) with s <= e returns the list for exactly the
\* years s..e in ascending order, e - s + 1 entries, each entry's cycle
\* index one step after that of the entry before it; whatever range was
\* cached before, the list returned and cached is that of the range asked.
C27_SaeunForTheRangeAsked ==
  SaeunReturned =>
    Only({ /\ Len(list) = prof.call.e - prof.call.s + 1
           /\ \A i \in 1..Len(list) :
                /\ list[i].year = prof.call.s + i - 1
                /\ list[i].idx = SexagenaryYear(list[i].year)
                /\ list[i].age = list[i].year - bm[1].year + 1
                /\ i > 1 => list[i].idx = CycleNext(list[i - 1].idx)
           /\ bm[1].saeun = <<list>>
           /\ bm[1].saeunRange = <<prof.call.s, prof.call.e>> :
           list \in {prof.call.value[1]} })

\* a second range was asked of a BirthMoment that had a list cached, and
\* the list runs across the end of the cycle
C27_Witness ==
  /\ SaeunReturned
  /\ "saeun" \in prof.replaced
  /\ prof.call.e > prof.call.s
  /\ \E i \in 1..Len(prof.call.value[1]) : prof.call.value[1][i].idx = 0

\* ------------------------------------------------------------------------
\* Properties of the yearly series (SpecSeries)
\* ------------------------------------------------------------------------

\* the decade periods the series was given
GivenDaeunList ==
  IF args.daeunData = <<>> THEN <<>> ELSE args.daeunData[1].list

\* the periods that have started by the age `age`
StartedBy(age) ==
  {k \in 1..Len(GivenDaeunList) : GivenDaeunList[k].age <= age}

\* C28: the yearly series has one entry for every year startYear..endYear,
\* in order; an entry's age is year - birthYear + 1; its decade period is
\* the list entry with the greatest start age not above that age, and none
\* when no period has started by that age; so the start age of an active
\* period never exceeds the entry's age.
C28_ActivePeriodByAge ==
  prof.op = "series" =>
    /\ Len(prof.yearly) = Max(0, args.endYear - args.startYear + 1)
    /\ \A n \in 1..Len(prof.yearly) :
         Only({ /\ y.year = args.startYear + n - 1
                /\ y.age = y.year - args.birthYear + 1
                /\ y.saeun = SexagenaryYear(y.year)
                /\ (StartedBy(y.age) = {}) = (y.daeun = <<>>)
                /\ \A k \in StartedBy(y.age) :
                     (\A j \in StartedBy(y.age) :
                        GivenDaeunList[j].age <= GivenDaeunList[k].age)
                       => (/\ y.daeun = <<GivenDaeunList[k].idx>>
                           /\ GivenDaeunList[k].age <= y.age) :
                y \in {prof.yearly[n]} })

\* a series that begins before the first period starts and ends in it
C28_Witness ==
  /\ prof.op = "series"
  /\ Len(prof.yearly) = 3
  /\ prof.yearly[1].daeun = <<>>
  /\ prof.yearly[3].daeun # <<>>
  /\ \E k \in 1..Len(GivenDaeunList) :
       GivenDaeunList[k].age = prof.yearly[3].age

\* ------------------------------------------------------------------------
\* Properties of the FortuneExplorer slider (SpecExplorerLive)
\* ------------------------------------------------------------------------

\* the browser holds at most one frame request, and _rafId is set exactly
\* while it does
OneFrameOutstanding ==
  /\ Cardinality(prof.frames) <= 1
  /\ (args.rafId = 0) <=> (prof.frames = {})
  /\ args.rafId # 0 => prof.frames = {args.rafId}

\* a step in which the browser fires a frame
FrameFired == prof'.frames # prof.frames /\ prof'.frames \subseteq prof.frames

\* a fired frame shows the value of the last input before it and leaves
\* nothing pending
FrameAppliesLastInput ==
  FrameFired =>
    /\ prof.lastInput # <<>>
    /\ args'.shown = prof.lastInput
    /\ args'.pendingVal = <<>>

\* the input of val is followed by a frame that shows val, or by an input
\* of another value
InputShownOrReplaced(val) ==
  (prof.event = "input" /\ prof.lastInput = <<val>>)
    ~> \/ prof.applied = <<val>> /\ args.pendingVal = <<>>
       \/ prof.lastInput # <<val>>

\* C29: slider inputs are coalesced per animation frame: whatever the order
\* of input events and frame callbacks, at most one frame request is
\* outstanding, every fired frame applies the most recent slider value
\* received before it, and an input that no other input follows is shown in
\* the end
C29_InputsCoalescedPerFrame ==
  /\ []OneFrameOutstanding
  /\ [][FrameAppliesLastInput]_vars
  /\ \A val \in SliderValues : InputShownOrReplaced(val)

\* a frame has fired after two or more inputs and shows the last of them
C29_Witness ==
  /\ prof.op = "browser"
  /\ prof.event = "frame"
  /\ prof.merged >= 2
  /\ prof.frames = {}
  /\ args.shown = prof.lastInput
  /\ args.pendingVal = <<>>

\* ------------------------------------------------------------------------
\* Properties of the longitude correction (SpecCorrection)
\* ------------------------------------------------------------------------

\* an existing calendar date
IsCivilDate(d) ==
  /\ d.month \in 1..12
  /\ d.day \in 1..DaysInMonth(d.year, d.month)

\* the calendar date after date d
DayAfter(d) ==
  IF d.day < DaysInMonth(d.year, d.month)
  THEN [year |-> d.year, month |-> d.month, day |-> d.day + 1]
  ELSE IF d.month < 12
  THEN [year |-> d.year, month |-> d.month + 1, day |-> 1]
  ELSE [year |-> d.year + 1, month |-> 1, day |-> 1]

CivilDateOf(r) == [year |-> r.year, month |-> r.month, day |-> r.day]

\* the returned date exists and is the input date, the day before or the
\* day after
DateWithinOneDay ==
  /\ IsCivilDate(CivilDateOf(prof.out))
  /\ \/ CivilDateOf(prof.out) = CivilDateOf(args.birth)
     \/ DayAfter(CivilDateOf(prof.out)) = CivilDateOf(args.birth)
     \/ CivilDateOf(prof.out) = DayAfter(CivilDateOf(args.birth))

\* C30: for every valid birth date, clock time (hour 0..23, minute 0..59)
\* and longitude in [-180, 180] the longitude correction returns a valid
\* civil date and clock time: hour in 0..23, minute in 0..59, and a calendar
\* date that exists and is at most one day away from the input date
C30_ValidCivilTime ==
  prof.op = "applyLongitudeCorrection" =>
    /\ prof.out.hour \in 0..23
    /\ prof.out.minute \in 0..59
    /\ DateWithinOneDay

\* C30, what the code does: the date and the hour are valid, and so is the
\* minute but for the value 60, which is returned when the corrected minute
\* has a fraction of one half or more above 59
C30_ValidButForMinute60 ==
  prof.op = "applyLongitudeCorrection" =>
    /\ prof.out.hour \in 0..23
    /\ prof.out.minute \in 0..60
    /\ prof.out.minute = 60 <=>
         (((args.birth.hour * 60 + args.birth.minute) * 100
            + longitudeCorrection(args.birth.longitude)) % (60 * 100)
           >= 5950)
    /\ DateWithinOneDay

\* Seoul, 10:32 on the last day of a leap February: 09:60 is returned
C30_Witness ==
  /\ prof.op = "applyLongitudeCorrection"
  /\ args.birth.longitude = 12698
  /\ args.birth.hour = 10
  /\ args.birth.minute = 32
  /\ args.birth.month = 2
  /\ args.birth.day = 29
  /\ prof.out.hour = 9
  /\ prof.out.minute = 60

====
